---- MODULE Spec2Model ----
(***************************************************************************)
(* Transaction ingestion of the Kakeibo expense tracker: the dedup/insert  *)
(* gate of src/db/repo.ts (createTransaction, bulkCreateTransactions) over *)
(* the Dexie transaction table of src/db/database.ts, fed by its three     *)
(* producers (CSV import, manual entry, Gmail notification sync).          *)
(*                                                                         *)
(* Every browser tab runs one call at a time; a call is cut at its awaits  *)
(* on the store, so the calls of two tabs interleave exactly where the     *)
(* code awaits.  Text is a sequence of one-character strings.  SHA-256 is  *)
(* taken to be collision free: a hash is modelled by the text it digests.  *)
(* Record ids (time stamp plus random suffix) and createdAt are left out:  *)
(* a stored record is identified by its content.                           *)
(***************************************************************************)
EXTENDS Integers, Sequences, FiniteSets, TLC

VARIABLES
    store,          \* db.transactions: the set of stored records
    pc,             \* per tab: where its current call stands
    op,             \* per tab: "none" | "create" | "bulk" | "sync"
    items,          \* per tab: the TransactionInput[] of the call
    found,          \* per tab: hashes of existingTxns (the batch lookup's result)
    existingHashes, \* per tab: the seen-set after the pass over items
    toInsert,       \* per tab: the staged records
    inserted,       \* per tab: counter of bulkCreateTransactions
    skipped,        \* per tab: counter of bulkCreateTransactions
    ret,            \* per tab: the record createTransaction returned (or NoTxn)
    err,            \* per tab: the error the call raised ("none" if none)
    reads,          \* per tab: store reads made by the batch insert of the call
    writes,         \* per tab: store writes made by the call
    prior,          \* per tab: outcome of the previous run of the same batch
    msgs,           \* per tab: Gmail notifications of the sync not yet processed
    dups,           \* per tab: duplicatesSkipped of the sync's own hash check
    csvText,        \* the decoded text handed to parseCsvText
    csvFormat,      \* what detectFormat returned for the rows of csvText
    csvResult,      \* what parseCsvText returned for csvText (or NoResult)
    descr,          \* the description handed to the categorizer
    learnedMap,     \* the learned map handed to categorizeWithLearning
    ruleResult,     \* what categorize returned for descr
    catResult,      \* what categorizeWithLearning returned for descr
    merchant_map,   \* db.merchant_map: the learned mappings, one per merchant key
    preflight,      \* import screen: the parsed and categorized file (or NoPreflight)
    importing,      \* import screen: an import is running
    result,         \* import screen: the counts of the last import (or NoImport)
    error,          \* import screen: the message shown ("" stands for null)
    reading,        \* handleFileChange: where the call stands
    file,           \* handleFileChange: the decoded text of the chosen file
    fileMerchantMap, \* handleFileChange: its local merchantMap
    lpc,            \* per tab: where its learning update stands
    lcall,          \* per tab: the arguments of its learning update
    readMapping,    \* per tab: the mapping its learning update read (or NoMapping)
    completed,      \* per merchant key: learning updates that have completed
    derivedKey,     \* what deriveMerchantKey returned for descr (or NotDerived)
    sjisText,       \* the text of a file saved in Shift_JIS, as code points
    fileBytes,      \* the bytes of the file handed to decodeFileContent
    decoded,        \* what decodeFileContent returned (or NotDecoded)
    hashArgs,       \* two candidates (date, amount, description) to be hashed
    hashTexts,      \* the texts generateHash built for them (or NotHashed)
    applyResult,    \* the call of bulkApplyMerchantCategory that returned (or NoApply)
    mailbox,        \* the notification messages in the Gmail account
    clock,          \* the time, in seconds
    last_sync_at,   \* gmail_sync record 1: when the last sync ended (or NoSync)
    spc,            \* where the call of syncGmail stands
    listed,         \* syncGmail: the messages listed for this run
    pending,        \* syncGmail: the listed messages the loop has not reached
    syncResult,     \* syncGmail: result
    transactionInputs, \* syncGmail: the inputs queued for the batch insert
    staged          \* bulkCreateTransactions called by the sync: its locals

\* The variables of the insert calls of the tabs.
tabs == <<pc, op, items, found, existingHashes, toInsert, inserted,
          skipped, ret, err, reads, writes, prior, msgs, dups>>

\* The variables of the CSV parser.
parser == <<csvText, csvFormat, csvResult>>

\* The variables of the categorizer.
categorizer == <<descr, learnedMap, ruleResult, catResult>>

\* The state of the import screen and the calls of handleFileChange.
screen == <<preflight, importing, result, error, reading, file, fileMerchantMap>>

\* The learning updates of the tabs.
learning == <<lpc, lcall, readMapping, completed>>

\* The results of the functions that are applied on their own.
functions == <<derivedKey, sjisText, fileBytes, decoded, hashArgs, hashTexts,
               applyResult>>

\* The Gmail account, the sync record and the call of syncGmail.
gmail == <<mailbox, clock, last_sync_at, spc, listed, pending, syncResult,
           transactionInputs, staged>>

\* What the insert calls of the tabs leave alone.
others == <<parser, categorizer, merchant_map, screen, learning, functions, gmail>>

vars == <<store, tabs, others>>

----------------------------------------------------------------------------
(* Bounds and the input universe                                           *)

MaxBatch == 2
MaxMsgs == 1

Tabs == {"tab1", "tab2"}

Grocery == <<"G", "r">>
Cafe == <<"C", "a">>

\* The purchases the producers report: (date, amount in yen, description).
Purchases ==
    { [date |-> "2024-01-15", amount |-> 1500, description |-> Grocery],
      [date |-> "2024-01-15", amount |-> 100, description |-> Cafe] }

\* What categorizeWithLearning attached to a row when the file was read:
\* the fallback alone, or the fallback and a rule's category.
Fallback ==
    { [category |-> "Uncategorized", categorySource |-> "unknown", confidence |-> 0] }

Categorizations ==
    Fallback \cup { [category |-> "Food", categorySource |-> "rule", confidence |-> 8] }

\* The category a user picks when correcting a stored record.
UserCategories == {"Daily"}

NoTxn == [hash |-> <<>>]

\* No call of categorizeWithLearning has returned yet.
NoCategorization == [categorySource |-> "none"]

\* No call of parseCsvText has returned yet.
NoResult == [format |-> "none"]

\* preflight is null.
NoPreflight == [format |-> "null"]

\* result is null.
NoImport == [inserted |-> -1]

\* db.merchant_map.get found no mapping (undefined).
NoMapping == [hits |-> 0]

\* No learning update is running.
NoCall == [category |-> ""]

----------------------------------------------------------------------------
(* Pure helpers                                                            *)

Abs(n) == IF n < 0 THEN -n ELSE n

Digit(d) == CASE d = 0 -> "0" [] d = 1 -> "1" [] d = 2 -> "2" [] d = 3 -> "3"
              [] d = 4 -> "4" [] d = 5 -> "5" [] d = 6 -> "6" [] d = 7 -> "7"
              [] d = 8 -> "8" [] d = 9 -> "9"

RECURSIVE Decimal(_)
Decimal(n) == IF n < 10 THEN <<Digit(n)>> ELSE Append(Decimal(n \div 10), Digit(n % 10))

\* `${amount}` of a JS integer.
NumberToString(n) == IF n < 0 THEN <<"-">> \o Decimal(-n) ELSE Decimal(n)

\* The white space of the texts modelled here.
WhiteSpace == {" ", "\t", "\r", "\n", "U+3000"}

\* String.prototype.trim
RECURSIVE TrimStart(_)
TrimStart(s) == IF s # <<>> /\ Head(s) \in WhiteSpace THEN TrimStart(Tail(s)) ELSE s

RECURSIVE TrimEnd(_)
TrimEnd(s) ==
    IF s # <<>> /\ s[Len(s)] \in WhiteSpace THEN TrimEnd(SubSeq(s, 1, Len(s) - 1)) ELSE s

Trim(s) == TrimEnd(TrimStart(s))

\* a || b on strings: the empty (or missing) string is falsy.
OrElse(a, b) == IF a = "" THEN b ELSE a

\* The confidence of an input that states none (undefined).
NoConfidence == -1

\* null where a text is expected (a merchant key): no text has it as its
\* only character.  A merchant key an input does not state becomes null.
Null == <<"null">>

\* No call of deriveMerchantKey has returned yet.
NotDerived == <<"none">>

\* No call of decodeFileContent has returned yet (no text holds a code
\* point below zero).
NotDecoded == <<-1>>

\* The gmail_sync table holds no record.
NoSync == -1

\* syncGmail, line 200: the result a call starts with.
NoSyncResult == [newTransactions |-> 0, duplicatesSkipped |-> 0, errors |-> <<>>]

\* bulkCreateTransactions has not been called by the sync.
NoBulk == [existingHashes |-> {}, toInsert |-> <<>>, inserted |-> 0, skipped |-> 0]

\* bulkApplyMerchantCategory has not returned.
NoApply == [updated |-> -1]

\* generateHash has not been called yet.
NotHashed == <<"none">>

\* Whether a text or null counts as true in a condition.
Truthy(s) == s # Null /\ s # <<>>

generateHash(date, amount, description) == <<date>> \o NumberToString(amount) \o description

Range(s) == { s[i] : i \in 1..Len(s) }

SeqsUpTo(S, n) == UNION { [1..k -> S] : k \in 0..n }

----------------------------------------------------------------------------
(* csvParser.ts: from the decoded text of a file to ParsedTransaction rows *)

MaxLines == 3
MaxCrLfLines == 2

\* The header of Format A.
HeaderLine ==
    <<"d", "a", "t", "e", ",", "a", "m", "o", "u", "n", "t", ",", "d", "e",
      "s", "c", "r", "i", "p", "t", "i", "o", "n">>

\* The header names in another case, order and position.
HeaderMixed ==
    <<"M", "e", "m", "o", ",", " ", "D", "e", "s", "c", "r", "i", "p", "t",
      "i", "o", "n", " ", ",", "D", "A", "T", "E", ",", "A", "m", "o", "u",
      "n", "t">>

\* Data rows of Format A: date, amount, description.
RowA ==
    <<"2", "0", "2", "4", "-", "0", "1", "-", "1", "5", ",", "1", "5", "0",
      "0", ",", "G", "r">>

\* The amount written with a thousands separator, quoted.
RowAQuoted ==
    <<"2", "0", "2", "4", "-", "0", "1", "-", "1", "5", ",", "\"", "1",
      ",", "5", "0", "0", "\"", ",", "G", "r">>

RowAShort == <<"2", "0", "2", "4", "-", "0", "1", "-", "1", "5", ",", "x">>

\* A data row under HeaderMixed, its amount written as a debit.
RowMixed ==
    <<"m", ",", "C", "a", ",", "2", "0", "2", "4", "-", "0", "1", "-", "1",
      "7", ",", "-", "3", "0", "0">>

\* The first row of Format B: masked account metadata.
MetaLine == <<"N", "A", "M", "E", ",", "1", "2", "3", "4">>

\* Data rows of Format B: date, merchant, amount, two flags, amount again.
RowB ==
    <<"2", "0", "2", "4", "/", "0", "1", "/", "1", "5", ",", "G", "r", ",",
      "1", "5", "0", "0", ",", "1", ",", "1", ",", "1", "5", "0", "0">>

RowBFallback ==
    <<"2", "0", "2", "4", "/", "0", "1", "/", "1", "6", ",", "C", "a", ",",
      ",", "1", ",", "1", ",", "-", "1", "0", "0">>

RowBWord ==
    <<"2", "0", "2", "4", "/", "0", "1", "/", "1", "7", ",", "G", "r", ",",
      "x", ",", "1", ",", "1", ",", "2", "0", "0">>

RowBShort ==
    <<"2", "0", "2", "4", "/", "0", "1", "/", "1", "8", ",", "C", "a", ",",
      ",", "7">>

\* A line of white space.
BlankLine == <<" ">>

CsvLines ==
    { HeaderLine, HeaderMixed, RowA, RowAQuoted, RowAShort, RowMixed,
      MetaLine, RowB, RowBFallback, RowBWord, RowBShort, BlankLine }

\* The lines of a file joined by the line break the file uses.
RECURSIVE JoinLines(_, _)
JoinLines(lines, eol) ==
    IF lines = <<>> THEN <<>>
    ELSE IF Len(lines) = 1 THEN lines[1]
    ELSE lines[1] \o eol \o JoinLines(Tail(lines), eol)

\* The decoded texts handed to parseCsvText: files with Unix line breaks,
\* and shorter files with Windows line breaks.
CsvTexts ==
    { JoinLines(lines, <<"\n">>) : lines \in SeqsUpTo(CsvLines, MaxLines) }
       \cup { JoinLines(lines, <<"\r", "\n">>) : lines \in SeqsUpTo(CsvLines, MaxCrLfLines) }

\* text.split(/\r?\n/): a line ends at "\n"; a "\r" right before it goes too.
RECURSIVE SplitLines(_)
SplitLines(text) ==
    IF \A i \in 1..Len(text) : text[i] # "\n" THEN <<text>>
    ELSE LET i == CHOOSE k \in 1..Len(text) :
                     text[k] = "\n" /\ \A j \in 1..(k - 1) : text[j] # "\n"
             line == SubSeq(text, 1, i - 1)
         IN <<IF line # <<>> /\ line[Len(line)] = "\r"
              THEN SubSeq(line, 1, Len(line) - 1) ELSE line>>
            \o SplitLines(SubSeq(text, i + 1, Len(text)))

\* The character loop of parseCsvRows over one line.
RECURSIVE ParseLine(_, _, _, _, _)
ParseLine(line, i, row, current, inQuotes) ==
    IF i > Len(line) THEN Append(row, Trim(current))
    ELSE LET char == line[i] IN
         IF char = "\""
         THEN IF inQuotes /\ i + 1 <= Len(line) /\ line[i + 1] = "\""
              THEN ParseLine(line, i + 2, row, Append(current, "\""), inQuotes)
              ELSE ParseLine(line, i + 1, row, current, ~inQuotes)
         ELSE IF char = "," /\ ~inQuotes
              THEN ParseLine(line, i + 1, Append(row, Trim(current)), <<>>, inQuotes)
              ELSE ParseLine(line, i + 1, row, Append(current, char), inQuotes)

RECURSIVE RowsOf(_, _)
RowsOf(lines, i) ==
    IF i > Len(lines) THEN <<>>
    ELSE IF Trim(lines[i]) = <<>> THEN RowsOf(lines, i + 1)
    ELSE <<ParseLine(lines[i], 1, <<>>, <<>>, FALSE)>> \o RowsOf(lines, i + 1)

parseCsvRows(text) == RowsOf(SplitLines(text), 1)

UpperCase ==
    <<"A", "B", "C", "D", "E", "F", "G", "H", "I", "J", "K", "L", "M",
      "N", "O", "P", "Q", "R", "S", "T", "U", "V", "W", "X", "Y", "Z",
      "U+FF21", "U+FF33", "U+FF37">>

LowerCase ==
    <<"a", "b", "c", "d", "e", "f", "g", "h", "i", "j", "k", "l", "m",
      "n", "o", "p", "q", "r", "s", "t", "u", "v", "w", "x", "y", "z",
      "U+FF41", "U+FF53", "U+FF57">>

\* String.prototype.toLowerCase on the ASCII letters and on the full-width
\* letters of the descriptions.
toLowerCase(s) ==
    [i \in 1..Len(s) |->
        IF \E k \in 1..Len(UpperCase) : UpperCase[k] = s[i]
        THEN LowerCase[CHOOSE k \in 1..Len(UpperCase) : UpperCase[k] = s[i]]
        ELSE s[i]]

Digits == { Digit(d) : d \in 0..9 }

DigitValue(c) == CHOOSE d \in 0..9 : Digit(d) = c

\* /^\d{4}S\d{2}S\d{2}$/ for the separator S.
MatchesDate(s, sep) ==
    /\ Len(s) = 10
    /\ \A i \in 1..10 : IF i \in {5, 8} THEN s[i] = sep ELSE s[i] \in Digits

NaN == [isNaN |-> TRUE, value |-> 0]

RECURSIVE LeadingDigits(_, _)
LeadingDigits(s, n) ==
    IF n < Len(s) /\ s[n + 1] \in Digits THEN LeadingDigits(s, n + 1) ELSE n

RECURSIVE DecimalValue(_)
DecimalValue(s) ==
    IF s = <<>> THEN 0
    ELSE 10 * DecimalValue(SubSeq(s, 1, Len(s) - 1)) + DigitValue(s[Len(s)])

\* parseInt(str, 10): leading white space, an optional sign, then the longest
\* run of digits; whatever follows the run is ignored; no digit gives NaN.
parseInt(str) ==
    LET s == TrimStart(str)
        signed == s # <<>> /\ Head(s) \in {"+", "-"}
        body == IF signed THEN Tail(s) ELSE s
        n == LeadingDigits(body, 0)
    IN IF n = 0 THEN NaN
       ELSE [isNaN |-> FALSE,
             value |-> (IF Head(s) = "-" THEN -1 ELSE 1)
                          * DecimalValue(SubSeq(body, 1, n))]

\* Array.prototype.indexOf: the first position (from 0) or -1.
indexOf(row, field) ==
    IF \E i \in 1..Len(row) : row[i] = field
    THEN (CHOOSE i \in 1..Len(row) :
             row[i] = field /\ \A j \in 1..(i - 1) : row[j] # field) - 1
    ELSE -1

Max(a, b) == IF a > b THEN a ELSE b

HeaderOf(rows) == [i \in 1..Len(rows[1]) |-> Trim(toLowerCase(rows[1][i]))]

DateName == <<"d", "a", "t", "e">>
AmountName == <<"a", "m", "o", "u", "n", "t">>
DescriptionName == <<"d", "e", "s", "c", "r", "i", "p", "t", "i", "o", "n">>

\* Mutant: the second-row test of Format B is made before the header test.
detectFormatBFirst(rows) ==
    IF Len(rows) < 2 THEN "null"
    ELSE LET firstRow == HeaderOf(rows)
             secondRow == rows[2]
         IN IF Len(secondRow) >= 6 /\ MatchesDate(secondRow[1], "/")
            THEN "B"
            ELSE IF /\ indexOf(firstRow, DateName) # -1
                    /\ indexOf(firstRow, AmountName) # -1
                    /\ indexOf(firstRow, DescriptionName) # -1
                 THEN "A"
                 ELSE "null"

detectFormat(rows) ==
    IF Len(rows) < 2 THEN "null"
    ELSE LET firstRow == HeaderOf(rows)
             secondRow == rows[2]
         IN IF /\ indexOf(firstRow, DateName) # -1
               /\ indexOf(firstRow, AmountName) # -1
               /\ indexOf(firstRow, DescriptionName) # -1
            THEN "A"
            ELSE IF Len(secondRow) >= 6 /\ MatchesDate(secondRow[1], "/")
                 THEN "B"
                 ELSE "null"

\* date.replace(/\//g, '-')
convertDateFormat(date) ==
    [i \in 1..Len(date) |-> IF date[i] = "/" THEN "-" ELSE date[i]]

\* One turn of the loop of parseFormatA: the row it pushes, if any.
FormatARow(row, dateIdx, amountIdx, descIdx) ==
    IF Len(row) <= Max(dateIdx, Max(amountIdx, descIdx)) THEN <<>>
    ELSE LET date == Trim(row[dateIdx + 1])
             amountStr == Trim(row[amountIdx + 1])
             description == Trim(row[descIdx + 1])
             amount == parseInt(amountStr)
         IN IF date = <<>> \/ amountStr = <<>> \/ description = <<>> THEN <<>>
            ELSE IF amount.isNaN THEN <<>>
            ELSE IF ~MatchesDate(date, "-") THEN <<>>
            ELSE <<[date |-> date, amount |-> Abs(amount.value),
                    description |-> description]>>

RECURSIVE FormatARows(_, _, _, _, _)
FormatARows(rows, i, dateIdx, amountIdx, descIdx) ==
    IF i > Len(rows) THEN <<>>
    ELSE FormatARow(rows[i], dateIdx, amountIdx, descIdx)
            \o FormatARows(rows, i + 1, dateIdx, amountIdx, descIdx)

parseFormatA(rows) ==
    LET header == HeaderOf(rows)
        dateIdx == indexOf(header, DateName)
        amountIdx == indexOf(header, AmountName)
        descIdx == indexOf(header, DescriptionName)
    IN IF dateIdx = -1 \/ amountIdx = -1 \/ descIdx = -1 THEN <<>>
       ELSE FormatARows(rows, 2, dateIdx, amountIdx, descIdx)

\* Mutant: column 6 is also used when column 3 holds no number.
FormatBRowFallbackOnNaN(row) ==
    IF Len(row) < 3 THEN <<>>
    ELSE LET dateRaw == Trim(row[1])
             description == Trim(row[2])
             amountStr == IF parseInt(Trim(row[3])).isNaN /\ Len(row) > 5
                          THEN Trim(row[6]) ELSE Trim(row[3])
             amount == parseInt(amountStr)
         IN IF dateRaw = <<>> \/ description = <<>> \/ amountStr = <<>> THEN <<>>
            ELSE IF ~MatchesDate(dateRaw, "/") THEN <<>>
            ELSE IF amount.isNaN THEN <<>>
            ELSE <<[date |-> convertDateFormat(dateRaw),
                    amount |-> Abs(amount.value),
                    description |-> description]>>

\* One turn of the loop of parseFormatB: the row it pushes, if any.
FormatBRow(row) ==
    IF Len(row) < 3 THEN <<>>
    ELSE LET dateRaw == Trim(row[1])
             description == Trim(row[2])
             amountStr == IF Trim(row[3]) = <<>> /\ Len(row) > 5
                          THEN Trim(row[6]) ELSE Trim(row[3])
             amount == parseInt(amountStr)
         IN IF dateRaw = <<>> \/ description = <<>> \/ amountStr = <<>> THEN <<>>
            ELSE IF ~MatchesDate(dateRaw, "/") THEN <<>>
            ELSE IF amount.isNaN THEN <<>>
            ELSE <<[date |-> convertDateFormat(dateRaw),
                    amount |-> Abs(amount.value),
                    description |-> description]>>

\* parseFormatB: the loop starts at the second row.
RECURSIVE FormatBRows(_, _)
FormatBRows(rows, i) ==
    IF i > Len(rows) THEN <<>>
    ELSE FormatBRow(rows[i]) \o FormatBRows(rows, i + 1)

\* Mutant: the loop starts at the first row, the metadata row is read too.
parseFormatBFromFirst(rows) == FormatBRows(rows, 1)

parseFormatB(rows) == FormatBRows(rows, 2)

TooFewRows == "CSV must have at least 2 rows"

Unrecognized == "Unrecognized CSV format"

NoValidRows(format) ==
    IF format = "A" THEN "No valid transactions found in standard CSV format"
    ELSE "No valid transactions found in Japanese bank CSV format"

\* Mutant: a detected format with no valid row is returned as a success.
parseCsvTextEmptySuccess(text) ==
    LET rows == parseCsvRows(text)
        format == detectFormat(rows)
        parsedRows == IF format = "A" THEN parseFormatA(rows) ELSE parseFormatB(rows)
    IN IF Len(rows) < 2
       THEN [format |-> "A", rows |-> <<>>, error |-> TooFewRows]
       ELSE IF format = "null"
       THEN [format |-> "A", rows |-> <<>>, error |-> Unrecognized]
       ELSE [format |-> format, rows |-> parsedRows, error |-> ""]

\* error |-> "" stands for a result without the error property.
parseCsvText(text) ==
    LET rows == parseCsvRows(text)
        format == detectFormat(rows)
        parsedRows == IF format = "A" THEN parseFormatA(rows) ELSE parseFormatB(rows)
    IN IF Len(rows) < 2
       THEN [format |-> "A", rows |-> <<>>, error |-> TooFewRows]
       ELSE IF format = "null"
       THEN [format |-> "A", rows |-> <<>>, error |-> Unrecognized]
       ELSE IF Len(parsedRows) = 0
       THEN [format |-> format, rows |-> <<>>, error |-> NoValidRows(format)]
       ELSE [format |-> format, rows |-> parsedRows, error |-> ""]

----------------------------------------------------------------------------
(* categorizer.ts and merchantKey.ts: from a description to its category   *)
(* A character outside ASCII is written by its code point: "U+FF21" is the *)
(* full-width A, "U+30FC" the long vowel mark, "U+3000" the wide space.    *)

MaxChunks == 3

\* The pieces descriptions are made of: the letters of the rule table's
\* keywords go, au, gu and of its pattern /aws/i in lower case, upper case
\* and full width, blanks, a digit and dashes.
Chunks ==
    { <<"a", "w", "s">>, <<"A", "W", "S">>, <<"U+FF21", "U+FF37", "U+FF33">>,
      <<"a", "u">>, <<"g", "o">>, <<"G", "U">>,
      <<" ">>, <<"U+3000">>, <<"1">>, <<"-">>, <<"U+30FC">> }

RECURSIVE Concat(_)
Concat(pieces) == IF pieces = <<>> THEN <<>> ELSE Head(pieces) \o Concat(Tail(pieces))

Descriptions == { Concat(pieces) : pieces \in SeqsUpTo(Chunks, MaxChunks) }

\* The full-width letters and digit of the descriptions and their
\* half-width forms (code point minus 0xFEE0).
FullWidth ==
    <<"U+FF21", "U+FF33", "U+FF37", "U+FF41", "U+FF53", "U+FF57", "U+FF12">>

HalfWidth == <<"A", "S", "W", "a", "s", "w", "2">>

Dashes == {"U+FF0D", "U+30FC", "U+2212", "U+2010", "U+2015"}

\* text.replace(/\s+/g, ' ')
RECURSIVE CollapseSpaces(_)
CollapseSpaces(s) ==
    IF s = <<>> THEN <<>>
    ELSE IF Head(s) \in WhiteSpace
         THEN <<" ">> \o CollapseSpaces(TrimStart(s))
         ELSE <<Head(s)>> \o CollapseSpaces(Tail(s))

\* text.replace(/[chars]/g, to) for a one-character replacement
ReplaceEach(s, chars, to) == [i \in 1..Len(s) |-> IF s[i] \in chars THEN to ELSE s[i]]

\* text.replace(/[chars]/g, '')
Remove(s, chars) == SelectSeq(s, LAMBDA c : c \notin chars)

ToHalfWidth(s) ==
    [i \in 1..Len(s) |->
        IF \E k \in 1..Len(FullWidth) : FullWidth[k] = s[i]
        THEN HalfWidth[CHOOSE k \in 1..Len(FullWidth) : FullWidth[k] = s[i]]
        ELSE s[i]]

normalize(text) ==
    ToHalfWidth(ReplaceEach(ReplaceEach(CollapseSpaces(toLowerCase(Trim(text))),
                                        Dashes, "-"), {"U+3000"}, " "))

Punctuation ==
    {".", ",", ";", ":", "!", "?", "@", "#", "$", "%", "^", "&", "*", "(", ")",
     "_", "+", "=", "[", "]", "{", "}", "<", ">", "|", "\\", "/", "\"", "'",
     "U+0060", "~", "-"}

\* Mutant: the digits stay in the key.
deriveMerchantKeyWithDigits(description) ==
    LET key == Trim(CollapseSpaces(Remove(normalize(description), Punctuation)))
    IN IF Len(key) > 0 THEN key ELSE Null

\* Mutant: the key is cut to its first character.
deriveMerchantKeyInitial(description) ==
    LET key == Trim(CollapseSpaces(Remove(Remove(normalize(description), Digits),
                                          Punctuation)))
    IN IF Len(key) > 0 THEN SubSeq(key, 1, 1) ELSE Null

\* Mutant: the key is returned as it is, empty or not.
deriveMerchantKeyNeverNull(description) ==
    Trim(CollapseSpaces(Remove(Remove(normalize(description), Digits), Punctuation)))

deriveMerchantKey(description) ==
    LET key == Trim(CollapseSpaces(Remove(Remove(normalize(description), Digits),
                                          Punctuation)))
    IN IF Len(key) > 0 THEN key ELSE Null

\* String.prototype.includes
Includes(text, part) ==
    \E i \in 1..(Len(text) - Len(part) + 1) : SubSeq(text, i, i + Len(part) - 1) = part

\* RegExp.prototype.test for the pattern /aws/i: the letters in either case
\* (a full-width letter is another character).
TestAws(text) ==
    \E i \in 1..(Len(text) - 2) :
       /\ text[i] \in {"a", "A"}
       /\ text[i + 1] \in {"w", "W"}
       /\ text[i + 2] \in {"s", "S"}

\* The rule table in its order, each rule with those of its keywords and
\* patterns that a description over the characters above can match.
RULES ==
    << [category |-> "FOOD", keywords |-> <<>>, patterns |-> <<>>],
       [category |-> "TRANSPORT", keywords |-> << <<"g", "o">> >>, patterns |-> <<>>],
       [category |-> "SUBSCRIPTION", keywords |-> << <<"a", "u">> >>,
        patterns |-> <<"aws">>],
       [category |-> "ENTERTAINMENT", keywords |-> <<>>, patterns |-> <<>>],
       [category |-> "DAILY", keywords |-> << <<"g", "u">> >>, patterns |-> <<>>],
       [category |-> "MEDICAL", keywords |-> <<>>, patterns |-> <<>>],
       [category |-> "OTHER",
        keywords |-> << <<"s", "a", "g", "a", "w", "a">> >>, patterns |-> <<>>] >>

PatternTest(pattern, text) == CASE pattern = "aws" -> TestAws(text)

\* The body of the loop of categorize for one rule: the keywords are looked
\* for in the normalized description, the patterns are tested on the
\* description as it was passed.
RuleMatches(rule, description) ==
    LET normalized == normalize(description) IN
    \/ \E k \in 1..Len(rule.keywords) : Includes(normalized, normalize(rule.keywords[k]))
    \/ \E p \in 1..Len(rule.patterns) : PatternTest(rule.patterns[p], description)

\* Mutant: the table is run from its last rule to its first.
RECURSIVE CategorizeBackwards(_, _)
CategorizeBackwards(i, description) ==
    LET k == Len(RULES) + 1 - i IN
    IF i > Len(RULES) THEN "UNCATEGORIZED"
    ELSE IF RuleMatches(RULES[k], description) THEN RULES[k].category
    ELSE CategorizeBackwards(i + 1, description)

RECURSIVE CategorizeFrom(_, _)
CategorizeFrom(i, description) ==
    IF i > Len(RULES) THEN "UNCATEGORIZED"
    ELSE IF RuleMatches(RULES[i], description) THEN RULES[i].category
    ELSE CategorizeFrom(i + 1, description)

categorize(description) == CategorizeFrom(1, description)

\* Mutant: a rule that matches goes before the learned map.
categorizeWithLearningRulesFirst(description, merchantMap) ==
    LET merchantKey == deriveMerchantKey(description)
        ruleCategory == categorize(description)
    IN IF ruleCategory # "UNCATEGORIZED"
       THEN [category |-> ruleCategory, categorySource |-> "rule",
             confidence |-> 8, merchantKey |-> merchantKey]
       ELSE IF Truthy(merchantKey) /\ merchantKey \in DOMAIN merchantMap
       THEN [category |-> merchantMap[merchantKey], categorySource |-> "learned",
             confidence |-> 10, merchantKey |-> merchantKey]
       ELSE [category |-> "Uncategorized", categorySource |-> "unknown",
             confidence |-> 0, merchantKey |-> merchantKey]

\* The learned map is a function from merchant keys to categories; the
\* confidence is counted in tenths.
categorizeWithLearning(description, merchantMap) ==
    LET merchantKey == deriveMerchantKey(description)
        ruleCategory == categorize(description)
    IN IF Truthy(merchantKey) /\ merchantKey \in DOMAIN merchantMap
       THEN [category |-> merchantMap[merchantKey], categorySource |-> "learned",
             confidence |-> 10, merchantKey |-> merchantKey]
       ELSE IF ruleCategory # "UNCATEGORIZED"
       THEN [category |-> ruleCategory, categorySource |-> "rule",
             confidence |-> 8, merchantKey |-> merchantKey]
       ELSE [category |-> "Uncategorized", categorySource |-> "unknown",
             confidence |-> 0, merchantKey |-> merchantKey]

----------------------------------------------------------------------------
(* Producers: how each builds the TransactionInput it hands to the gate    *)

\* The rows of a parsed and categorized CSV file (preflight.allRows).
PreflightRows(cats) ==
    { [date |-> p.date, amount |-> p.amount, description |-> p.description,
       predictedCategory |-> c.category, categorySource |-> c.categorySource,
       confidence |-> c.confidence, merchantKey |-> deriveMerchantKey(p.description)] :
      p \in Purchases, c \in cats }

\* CsvImport.handleImport: the hash is taken over the absolute amount.
CsvInput(row) ==
    LET positiveAmount == Abs(row.amount) IN
    [date |-> row.date,
     amount |-> -positiveAmount,
     category |-> row.predictedCategory,
     account |-> "card",
     wallet |-> "personal",
     source |-> "csv",
     description |-> row.description,
     hash |-> generateHash(row.date, positiveAmount, row.description),
     merchant_key |-> row.merchantKey,
     category_source |-> row.categorySource,
     confidence |-> row.confidence]

\* The manual entry form once it passed validation (amountNum > 0).
ManualForms ==
    { [date |-> p.date, amountNum |-> p.amount, description |-> p.description,
       category |-> "", suggestedCategory |-> "Uncategorized"] : p \in Purchases }

\* ManualEntry.handleSubmit: hashes what was typed, stores the trimmed text;
\* wallet, source, merchant_key, category_source and confidence are left for
\* createTransaction to default.
\* "Mibunrui" stands for the Japanese literal of the last fallback category.
ManualInput(form) ==
    [date |-> form.date,
     amount |-> -Abs(form.amountNum),
     category |-> OrElse(form.category, OrElse(form.suggestedCategory, "Mibunrui")),
     account |-> "cash",
     wallet |-> "",
     source |-> "",
     description |-> Trim(form.description),
     hash |-> generateHash(form.date, form.amountNum, form.description),
     merchant_key |-> Null,
     category_source |-> "",
     confidence |-> NoConfidence]

\* The fields the notification template states: date, merchant, yen charged.
VpassMails ==
    { [date |-> p.date, merchant |-> p.description, yen |-> p.amount] : p \in Purchases }

\* gmailSync.parseVpassEmail: the amount is negated.
parseVpassEmail(mail) ==
    [date |-> mail.date, merchant |-> Trim(mail.merchant), amount |-> -mail.yen]

\* gmailSync.syncGmail: the hash is taken over parsed.amount as parsed.
GmailHash(parsed) == generateHash(parsed.date, parsed.amount, parsed.merchant)

GmailInput(parsed, categorization) ==
    [date |-> parsed.date,
     amount |-> parsed.amount,
     category |-> categorization.category,
     account |-> "card",
     wallet |-> "personal",
     source |-> "gmail",
     description |-> parsed.merchant,
     hash |-> GmailHash(parsed),
     merchant_key |-> deriveMerchantKey(parsed.merchant),
     category_source |-> categorization.categorySource,
     confidence |-> categorization.confidence]

----------------------------------------------------------------------------
(* The transaction table: Dexie schema v2, '&hash' is a unique index       *)

HashesOf(records) == { r.hash : r \in records }

\* db.transactions.where('hash').equals(h).first()
FindByHash(h) == IF \E r \in store : r.hash = h
                 THEN CHOOSE r \in store : r.hash = h
                 ELSE NoTxn

\* Mutant: the batch lookup finds nothing (it queries the wrong index).
FindNothing(hashes) == {}

\* db.transactions.where('hash').anyOf(hashes).toArray(), as its hash set
FindByHashes(hashes) == { r.hash : r \in { x \in store : x.hash \in hashes } }

\* Mutant: the index on hash is not unique (schema v1: 'hash' without '&').
NeverViolatesUnique(records, txn) == FALSE

\* Whether the unique index on hash rejects adding txn to records.
ViolatesUnique(records, txn) == txn.hash \in HashesOf(records)

\* Table.bulkAdd row by row: a row the unique index rejects is not added and
\* the call fails; rows are added in order, so a row also conflicts with an
\* equal hash added earlier in the same call.
RECURSIVE AddRows(_, _, _)
AddRows(records, rows, i) ==
    IF i > Len(rows) THEN [records |-> records, failed |-> FALSE]
    ELSE IF ViolatesUnique(records, rows[i])
         THEN [AddRows(records, rows, i + 1) EXCEPT !.failed = TRUE]
         ELSE AddRows(records \cup {rows[i]}, rows, i + 1)

\* The record createTransaction builds from its input.
NewTxn(data) ==
    [date |-> data.date,
     amount |-> data.amount,
     category |-> data.category,
     account |-> data.account,
     wallet |-> OrElse(data.wallet, "personal"),
     source |-> OrElse(data.source, "manual"),
     description |-> data.description,
     hash |-> data.hash,
     merchant_key |-> data.merchant_key,
     category_source |-> OrElse(data.category_source, "unknown"),
     confidence |-> IF data.confidence = NoConfidence THEN 0 ELSE data.confidence]

\* The record bulkCreateTransactions stages from an item.
BulkTxn(item) ==
    [date |-> item.date,
     amount |-> item.amount,
     category |-> item.category,
     account |-> item.account,
     wallet |-> OrElse(item.wallet, "personal"),
     source |-> OrElse(item.source, "csv"),
     description |-> item.description,
     hash |-> item.hash,
     merchant_key |-> item.merchant_key,
     category_source |-> OrElse(item.category_source, "unknown"),
     confidence |-> IF item.confidence = NoConfidence THEN 0 ELSE item.confidence]

\* Mutant: a skipped item is not counted.
LoopStepUncounted(acc, item) ==
    IF item.hash \in acc.existingHashes
    THEN acc
    ELSE [existingHashes |-> acc.existingHashes \cup {item.hash},
          toInsert |-> Append(acc.toInsert, BulkTxn(item)),
          inserted |-> acc.inserted + 1,
          skipped |-> acc.skipped]

\* Mutant: a staged hash is not added to the seen-set.
LoopStepUnmarked(acc, item) ==
    IF item.hash \in acc.existingHashes
    THEN [acc EXCEPT !.skipped = @ + 1]
    ELSE [existingHashes |-> acc.existingHashes,
          toInsert |-> Append(acc.toInsert, BulkTxn(item)),
          inserted |-> acc.inserted + 1,
          skipped |-> acc.skipped]

\* Mutant: every item is staged, the seen-set is not consulted.
LoopStepStageAll(acc, item) ==
    [existingHashes |-> acc.existingHashes \cup {item.hash},
     toInsert |-> Append(acc.toInsert, BulkTxn(item)),
     inserted |-> acc.inserted + 1,
     skipped |-> acc.skipped]

\* Mutant: the seen-set is overwritten by the staged hash instead of extended.
LoopStepSeenLast(acc, item) ==
    IF item.hash \in acc.existingHashes
    THEN [acc EXCEPT !.skipped = @ + 1]
    ELSE [existingHashes |-> {item.hash},
          toInsert |-> Append(acc.toInsert, BulkTxn(item)),
          inserted |-> acc.inserted + 1,
          skipped |-> acc.skipped]

\* One turn of the loop of bulkCreateTransactions over its locals.
LoopStep(acc, item) ==
    IF item.hash \in acc.existingHashes
    THEN [acc EXCEPT !.skipped = @ + 1]
    ELSE [existingHashes |-> acc.existingHashes \cup {item.hash},
          toInsert |-> Append(acc.toInsert, BulkTxn(item)),
          inserted |-> acc.inserted + 1,
          skipped |-> acc.skipped]

RECURSIVE Loop(_, _, _)
Loop(its, i, acc) ==
    IF i > Len(its) THEN acc ELSE Loop(its, i + 1, LoopStep(acc, its[i]))

\* The pass of bulkCreateTransactions over items, given the hashes found.
BulkPass(its, existing) ==
    Loop(its, 1, [existingHashes |-> existing, toInsert |-> <<>>,
                  inserted |-> 0, skipped |-> 0])

----------------------------------------------------------------------------
(* Initial state                                                           *)

IdleTabs ==
    /\ pc = [t \in Tabs |-> "idle"]
    /\ op = [t \in Tabs |-> "none"]
    /\ items = [t \in Tabs |-> <<>>]
    /\ found = [t \in Tabs |-> {}]
    /\ existingHashes = [t \in Tabs |-> {}]
    /\ toInsert = [t \in Tabs |-> <<>>]
    /\ inserted = [t \in Tabs |-> 0]
    /\ skipped = [t \in Tabs |-> 0]
    /\ ret = [t \in Tabs |-> NoTxn]
    /\ err = [t \in Tabs |-> "none"]
    /\ reads = [t \in Tabs |-> 0]
    /\ writes = [t \in Tabs |-> 0]
    /\ prior = [t \in Tabs |-> "none"]
    /\ msgs = [t \in Tabs |-> <<>>]
    /\ dups = [t \in Tabs |-> 0]

\* No text has been handed to the parser.
IdleParser ==
    /\ csvText = <<>>
    /\ csvFormat = "none"
    /\ csvResult = NoResult

\* No description has been handed to the categorizer.
IdleCategorizer ==
    /\ descr = <<>>
    /\ learnedMap = <<>>
    /\ ruleResult = "none"
    /\ catResult = NoCategorization

\* No function has been applied on its own.
IdleFunctions ==
    /\ derivedKey = NotDerived
    /\ sjisText = <<>>
    /\ fileBytes = <<>>
    /\ decoded = NotDecoded
    /\ hashArgs = <<>>
    /\ hashTexts = NotHashed
    /\ applyResult = NoApply

\* No message has arrived and syncGmail has never run.
IdleGmail ==
    /\ mailbox = {}
    /\ clock = 1
    /\ last_sync_at = NoSync
    /\ spc = "idle"
    /\ listed = <<>>
    /\ pending = <<>>
    /\ syncResult = NoSyncResult
    /\ transactionInputs = <<>>
    /\ staged = NoBulk

\* The import screen as it is mounted, over an empty merchant map.
IdleScreen ==
    /\ merchant_map = {}
    /\ preflight = NoPreflight
    /\ importing = FALSE
    /\ result = NoImport
    /\ error = ""
    /\ reading = "idle"
    /\ file = <<>>
    /\ fileMerchantMap = <<>>

\* No learning update has been called.
IdleLearning ==
    /\ lpc = [t \in Tabs |-> "idle"]
    /\ lcall = [t \in Tabs |-> NoCall]
    /\ readMapping = [t \in Tabs |-> NoMapping]
    /\ completed = <<>>

Init ==
    /\ store = {}
    /\ IdleTabs
    /\ IdleParser
    /\ IdleCategorizer
    /\ IdleScreen
    /\ IdleLearning
    /\ IdleGmail
    /\ IdleFunctions

\* The locals of a call, as they are when the call starts.
ResetLocals(t) ==
    /\ found' = [found EXCEPT ![t] = {}]
    /\ existingHashes' = [existingHashes EXCEPT ![t] = {}]
    /\ toInsert' = [toInsert EXCEPT ![t] = <<>>]
    /\ inserted' = [inserted EXCEPT ![t] = 0]
    /\ skipped' = [skipped EXCEPT ![t] = 0]
    /\ ret' = [ret EXCEPT ![t] = NoTxn]
    /\ err' = [err EXCEPT ![t] = "none"]
    /\ reads' = [reads EXCEPT ![t] = 0]
    /\ writes' = [writes EXCEPT ![t] = 0]

----------------------------------------------------------------------------
(* createTransaction, called by the manual entry form                      *)

\* ManualEntry.handleSubmit up to the call of createTransaction.
SubmitManual(t) ==
    /\ pc[t] = "idle"
    /\ \E form \in ManualForms :
          items' = [items EXCEPT ![t] = <<ManualInput(form)>>]
    /\ pc' = [pc EXCEPT ![t] = "create_lookup"]
    /\ op' = [op EXCEPT ![t] = "create"]
    /\ prior' = [prior EXCEPT ![t] = "none"]
    /\ ResetLocals(t)
    /\ UNCHANGED <<store, msgs, dups>>
    /\ UNCHANGED others

\* Mutant: a duplicate overwrites the stored record (put instead of return).
CreateLookupUpsert(t) ==
    /\ pc[t] = "create_lookup"
    /\ LET existing == FindByHash(items[t][1].hash) IN
          IF existing # NoTxn
          THEN /\ ret' = [ret EXCEPT ![t] = NewTxn(items[t][1])]
               /\ store' = (store \ {existing}) \cup {NewTxn(items[t][1])}
               /\ pc' = [pc EXCEPT ![t] = "returned"]
          ELSE /\ ret' = ret
               /\ store' = store
               /\ pc' = [pc EXCEPT ![t] = "create_add"]
    /\ UNCHANGED <<op, items, found, existingHashes, toInsert, inserted,
                   skipped, err, reads, writes, prior, msgs, dups>>
    /\ UNCHANGED others

\* createTransaction, lines 56-59: the lookup and the early return.
CreateLookup(t) ==
    /\ pc[t] = "create_lookup"
    /\ LET existing == FindByHash(items[t][1].hash) IN
          IF existing # NoTxn
          THEN /\ ret' = [ret EXCEPT ![t] = existing]
               /\ pc' = [pc EXCEPT ![t] = "returned"]
          ELSE /\ ret' = ret
               /\ pc' = [pc EXCEPT ![t] = "create_add"]
    /\ UNCHANGED <<store, op, items, found, existingHashes, toInsert, inserted,
                   skipped, err, reads, writes, prior, msgs, dups>>
    /\ UNCHANGED others

\* createTransaction, lines 61-79: db.transactions.add(txn) and the return.
CreateAdd(t) ==
    /\ pc[t] = "create_add"
    /\ LET txn == NewTxn(items[t][1]) IN
          IF ViolatesUnique(store, txn)
          THEN /\ store' = store
               /\ err' = [err EXCEPT ![t] = "ConstraintError"]
               /\ ret' = ret
               /\ pc' = [pc EXCEPT ![t] = "threw"]
          ELSE /\ store' = store \cup {txn}
               /\ err' = err
               /\ ret' = [ret EXCEPT ![t] = txn]
               /\ pc' = [pc EXCEPT ![t] = "returned"]
    /\ writes' = [writes EXCEPT ![t] = @ + 1]
    /\ UNCHANGED <<op, items, found, existingHashes, toInsert, inserted,
                   skipped, reads, prior, msgs, dups>>
    /\ UNCHANGED others

----------------------------------------------------------------------------
(* bulkCreateTransactions, called by the CSV import and by the Gmail sync  *)

\* CsvImport.handleImport up to the call of bulkCreateTransactions.  The
\* empty batch is in the domain of the exported function, though the import
\* screen itself never holds an empty preflight.
ImportCsv(t, cats) ==
    /\ pc[t] = "idle"
    /\ \E rows \in SeqsUpTo(PreflightRows(cats), MaxBatch) :
          items' = [items EXCEPT ![t] = [i \in 1..Len(rows) |-> CsvInput(rows[i])]]
    /\ pc' = [pc EXCEPT ![t] = "bulk_lookup"]
    /\ op' = [op EXCEPT ![t] = "bulk"]
    /\ prior' = [prior EXCEPT ![t] = "none"]
    /\ ResetLocals(t)
    /\ UNCHANGED <<store, msgs, dups>>
    /\ UNCHANGED others

\* Mutant: the store is asked once per item instead of once per batch.
BulkLookupPerRow(t) ==
    /\ pc[t] = "bulk_lookup"
    /\ LET hashes == { items[t][i].hash : i \in 1..Len(items[t]) }
           existing == FindByHashes(hashes)
           acc == BulkPass(items[t], existing)
       IN /\ found' = [found EXCEPT ![t] = existing]
          /\ existingHashes' = [existingHashes EXCEPT ![t] = acc.existingHashes]
          /\ toInsert' = [toInsert EXCEPT ![t] = acc.toInsert]
          /\ inserted' = [inserted EXCEPT ![t] = acc.inserted]
          /\ skipped' = [skipped EXCEPT ![t] = acc.skipped]
          /\ pc' = [pc EXCEPT ![t] =
                      IF Len(acc.toInsert) > 0 THEN "bulk_write" ELSE "returned"]
    /\ reads' = [reads EXCEPT ![t] = @ + Len(items[t])]
    /\ UNCHANGED <<store, op, items, ret, err, writes, prior, msgs, dups>>
    /\ UNCHANGED others

\* bulkCreateTransactions, lines 83-115: the one lookup of all hashes, then
\* the pass over the items (no await in it).
BulkLookup(t) ==
    /\ pc[t] = "bulk_lookup"
    /\ LET hashes == { items[t][i].hash : i \in 1..Len(items[t]) }
           existing == FindByHashes(hashes)
           acc == BulkPass(items[t], existing)
       IN /\ found' = [found EXCEPT ![t] = existing]
          /\ existingHashes' = [existingHashes EXCEPT ![t] = acc.existingHashes]
          /\ toInsert' = [toInsert EXCEPT ![t] = acc.toInsert]
          /\ inserted' = [inserted EXCEPT ![t] = acc.inserted]
          /\ skipped' = [skipped EXCEPT ![t] = acc.skipped]
          /\ pc' = [pc EXCEPT ![t] =
                      IF Len(acc.toInsert) > 0 THEN "bulk_write" ELSE "returned"]
    /\ reads' = [reads EXCEPT ![t] = @ + 1]
    /\ UNCHANGED <<store, op, items, ret, err, writes, prior, msgs, dups>>
    /\ UNCHANGED others

\* bulkCreateTransactions, lines 117-121: the one bulkAdd and the return.
\* When the unique index rejects a row the call raises; the store keeps the
\* rows it accepted, or none of them when it runs the write atomically.
BulkWrite(t) ==
    /\ pc[t] = "bulk_write"
    /\ LET res == AddRows(store, toInsert[t], 1) IN
          IF res.failed
          THEN /\ \E atomic \in BOOLEAN :
                     store' = IF atomic THEN store ELSE res.records
               /\ err' = [err EXCEPT ![t] = "ConstraintError"]
               /\ pc' = [pc EXCEPT ![t] = "threw"]
          ELSE /\ store' = res.records
               /\ err' = err
               /\ pc' = [pc EXCEPT ![t] = "returned"]
    /\ writes' = [writes EXCEPT ![t] = @ + 1]
    /\ UNCHANGED <<op, items, found, existingHashes, toInsert, inserted,
                   skipped, ret, reads, prior, msgs, dups>>
    /\ UNCHANGED others

\* The user imports the same file again (or retries an import that failed).
Reimport(t) ==
    /\ pc[t] \in {"returned", "threw"}
    /\ op[t] = "bulk"
    /\ prior' = [prior EXCEPT ![t] = IF pc[t] = "returned" THEN "ok" ELSE "failed"]
    /\ pc' = [pc EXCEPT ![t] = "bulk_lookup"]
    /\ ResetLocals(t)
    /\ UNCHANGED <<store, op, items, msgs, dups>>
    /\ UNCHANGED others

\* The call is over; the tab is free for the next one.
Finish(t) ==
    /\ pc[t] \in {"returned", "threw"}
    /\ pc' = [pc EXCEPT ![t] = "idle"]
    /\ op' = [op EXCEPT ![t] = "none"]
    /\ items' = [items EXCEPT ![t] = <<>>]
    /\ prior' = [prior EXCEPT ![t] = "none"]
    /\ dups' = [dups EXCEPT ![t] = 0]
    /\ ResetLocals(t)
    /\ UNCHANGED <<store, msgs>>
    /\ UNCHANGED others

----------------------------------------------------------------------------
(* syncGmail: its own hash check per message, then the batch insert        *)

\* syncGmail, lines 207-213: the notifications listed for this run.
StartSync(t) ==
    /\ pc[t] = "idle"
    /\ \E mails \in SeqsUpTo(VpassMails, MaxMsgs) :
          /\ mails # <<>>
          /\ msgs' = [msgs EXCEPT ![t] = mails]
    /\ pc' = [pc EXCEPT ![t] = "sync_check"]
    /\ op' = [op EXCEPT ![t] = "sync"]
    /\ items' = [items EXCEPT ![t] = <<>>]
    /\ prior' = [prior EXCEPT ![t] = "none"]
    /\ dups' = [dups EXCEPT ![t] = 0]
    /\ ResetLocals(t)
    /\ UNCHANGED store
    /\ UNCHANGED others

\* syncGmail, lines 215-251: one message: parse, hash, look the hash up,
\* count a duplicate or queue the input.
SyncCheck(t, cats) ==
    /\ pc[t] = "sync_check"
    /\ msgs[t] # <<>>
    /\ LET parsed == parseVpassEmail(Head(msgs[t]))
           existing == FindByHash(GmailHash(parsed))
       IN IF existing # NoTxn
          THEN /\ dups' = [dups EXCEPT ![t] = @ + 1]
               /\ items' = items
          ELSE /\ dups' = dups
               /\ \E c \in cats :
                     items' = [items EXCEPT ![t] = Append(@, GmailInput(parsed, c))]
    /\ msgs' = [msgs EXCEPT ![t] = Tail(@)]
    /\ UNCHANGED <<store, pc, op, found, existingHashes, toInsert, inserted,
                   skipped, ret, err, reads, writes, prior>>
    /\ UNCHANGED others

\* syncGmail, lines 257-258: after the last message, the batch insert is
\* called when there is something to insert.  What syncGmail does after it
\* (adding up its result, the gmail_sync record) does not touch the
\* transaction table.
SyncInsert(t) ==
    /\ pc[t] = "sync_check"
    /\ msgs[t] = <<>>
    /\ pc' = [pc EXCEPT ![t] = IF Len(items[t]) > 0 THEN "bulk_lookup" ELSE "returned"]
    /\ UNCHANGED <<store, op, items, found, existingHashes, toInsert, inserted,
                   skipped, ret, err, reads, writes, prior, msgs, dups>>
    /\ UNCHANGED others

----------------------------------------------------------------------------
(* updateTransactionCategory: the user corrects a stored record's category *)

UpdateCategory ==
    /\ \E r \in store, c \in UserCategories :
          /\ r.category # c
          /\ store' = (store \ {r}) \cup
                         {[r EXCEPT !.category = c, !.category_source = "manual"]}
    /\ UNCHANGED <<pc, op, items, found, existingHashes, toInsert, inserted,
                   skipped, ret, err, reads, writes, prior, msgs, dups>>
    /\ UNCHANGED others

----------------------------------------------------------------------------
(* A store fault (quota, aborted transaction) during the batch write: the  *)
(* store keeps none or only part of the staged records and the call raises *)

BulkWriteFault(t) ==
    /\ pc[t] = "bulk_write"
    /\ \E kept \in SUBSET Range(toInsert[t]) :
          /\ kept # Range(toInsert[t])
          /\ ~ AddRows(store, toInsert[t], 1).failed
          /\ store' = store \cup kept
    /\ err' = [err EXCEPT ![t] = "StoreFault"]
    /\ pc' = [pc EXCEPT ![t] = "threw"]
    /\ writes' = [writes EXCEPT ![t] = @ + 1]
    /\ UNCHANGED <<op, items, found, existingHashes, toInsert, inserted,
                   skipped, ret, reads, prior, msgs, dups>>
    /\ UNCHANGED others

----------------------------------------------------------------------------
(* The system: the calls of two tabs interleave at their awaits            *)

TabStep(t) ==
    \/ SubmitManual(t)
    \/ CreateLookup(t)
    \/ CreateAdd(t)
    \/ ImportCsv(t, Fallback)
    \/ BulkLookup(t)
    \/ BulkWrite(t)
    \/ Finish(t)
    \/ StartSync(t)
    \/ SyncCheck(t, Fallback)
    \/ SyncInsert(t)

Next == \E t \in Tabs : TabStep(t)

Spec == Init /\ [][Next]_vars

----------------------------------------------------------------------------
(* One tab alone: its calls run one after the other; the user may import   *)
(* the same file again, correct categories, and the store may fault        *)

SeqTab == "tab1"

NextSeq ==
    \/ SubmitManual(SeqTab)
    \/ CreateLookup(SeqTab)
    \/ CreateAdd(SeqTab)
    \/ ImportCsv(SeqTab, Categorizations)
    \/ BulkLookup(SeqTab)
    \/ BulkWrite(SeqTab)
    \/ BulkWriteFault(SeqTab)
    \/ Reimport(SeqTab)
    \/ Finish(SeqTab)
    \/ StartSync(SeqTab)
    \/ SyncCheck(SeqTab, Fallback)
    \/ SyncInsert(SeqTab)
    \/ UpdateCategory

SpecSeq == Init /\ [][NextSeq]_vars

----------------------------------------------------------------------------
(* The parser alone: a decoded text is handed to parseCsvText              *)

InitParse ==
    /\ store = {}
    /\ IdleTabs
    /\ csvText \in CsvTexts
    /\ csvFormat = "none"
    /\ csvResult = NoResult
    /\ IdleCategorizer
    /\ IdleScreen
    /\ IdleLearning
    /\ IdleGmail
    /\ IdleFunctions

\* detectFormat is called with the rows of the text.
DetectFormat ==
    /\ csvFormat = "none"
    /\ csvFormat' = detectFormat(parseCsvRows(csvText))
    /\ UNCHANGED <<store, tabs, csvText, csvResult, categorizer, merchant_map, screen,
                   learning, functions, gmail>>

ParseCsvText ==
    /\ csvResult = NoResult
    /\ csvResult' = parseCsvText(csvText)
    /\ UNCHANGED <<store, tabs, csvText, csvFormat, categorizer, merchant_map, screen,
                   learning, functions, gmail>>

NextParse == DetectFormat \/ ParseCsvText

SpecParse == InitParse /\ [][NextParse]_vars

----------------------------------------------------------------------------
(* The categorizer alone: a description and a learned map are handed to it *)

\* The merchant keys the user has taught.
LearnedKeys == { <<"a", "w", "s">>, <<"g", "o">> }

LearnedMaps == UNION { [keys -> UserCategories] : keys \in SUBSET LearnedKeys }

InitCat ==
    /\ store = {}
    /\ IdleTabs
    /\ IdleParser
    /\ descr \in Descriptions
    /\ learnedMap \in LearnedMaps
    /\ ruleResult = "none"
    /\ catResult = NoCategorization
    /\ IdleScreen
    /\ IdleLearning
    /\ IdleGmail
    /\ IdleFunctions

Categorize ==
    /\ ruleResult = "none"
    /\ ruleResult' = categorize(descr)
    /\ UNCHANGED <<store, tabs, parser, descr, learnedMap, catResult, merchant_map, screen,
                   learning, functions, gmail>>

CategorizeWithLearning ==
    /\ catResult = NoCategorization
    /\ catResult' = categorizeWithLearning(descr, learnedMap)
    /\ UNCHANGED <<store, tabs, parser, descr, learnedMap, ruleResult, merchant_map, screen,
                   learning, functions, gmail>>

NextCat == Categorize \/ CategorizeWithLearning

SpecCat == InitCat /\ [][NextCat]_vars

----------------------------------------------------------------------------
(* The import screen (CsvImport.tsx) over the store and the merchant map:  *)
(* a file is chosen, read, parsed and categorized into a preflight, which  *)
(* the user imports or cancels; in between the user assigns categories to  *)
(* stored records (updateTransactionCategory).  One call of                *)
(* handleFileChange is in flight at a time; it is cut at its awaits.  Of a *)
(* merchant mapping merchant_key, category and hits are kept (updated_at   *)
(* is read by no lookup).  Reads that fail (the file, the merchant map)    *)
(* are left out: the store does not fault here.                            *)

\* The hit count up to which the user goes on teaching one merchant.
MaxHits == 1

\* A second purchase at the merchant of RowA, its name in capitals.
RowASame ==
    <<"2", "0", "2", "4", "-", "0", "1", "-", "1", "6", ",", "7", "0", "0",
      ",", "G", "R">>

\* A purchase whose description a rule matches.
RowGo ==
    <<"2", "0", "2", "4", "-", "0", "1", "-", "1", "7", ",", "3", "0", "0",
      ",", "g", "o">>

\* Files parseCsvText accepts; FileB states the purchase of FileOne in the
\* bank's format.
FileOne == JoinLines(<<HeaderLine, RowA>>, <<"\n">>)
FileTwo == JoinLines(<<HeaderLine, RowA, RowASame>>, <<"\n">>)
FileGo == JoinLines(<<HeaderLine, RowGo, RowAShort>>, <<"\n">>)
FileB == JoinLines(<<MetaLine, RowB>>, <<"\r", "\n">>)

\* Files parseCsvText rejects: one row, no format detected, no valid row.
FileHeaderOnly == HeaderLine
FileUnrecognized == JoinLines(<<MetaLine, RowA>>, <<"\n">>)
FileNoValidRow == JoinLines(<<HeaderLine, RowAShort>>, <<"\n">>)

\* The files the user picks.
ImportFiles ==
    { FileOne, FileTwo, FileGo, FileB,
      FileHeaderOnly, FileUnrecognized, FileNoValidRow }

\* The categories the user assigns in the inbox.
InboxCategories == {"Daily", "Hobby"}

\* merchantKey.buildMerchantMap over the rows of getMerchantMap (merchant_key
\* is the primary key of the table: one row per key).
buildMerchantMap(mappings) ==
    [k \in { m.merchant_key : m \in mappings } |->
        (CHOOSE m \in mappings : m.merchant_key = k).category]

\* handleFileChange, lines 303-316: a parsed row with its prediction.
PreflightRow(row, merchantMap) ==
    LET cat == categorizeWithLearning(row.description, merchantMap) IN
    [date |-> row.date, amount |-> row.amount, description |-> row.description,
     predictedCategory |-> cat.category, categorySource |-> cat.categorySource,
     confidence |-> cat.confidence, merchantKey |-> cat.merchantKey]

CountSource(rows, source) ==
    Cardinality({ i \in 1..Len(rows) : rows[i].categorySource = source })

\* handleFileChange, lines 299-327: the preflight of a parse result (its
\* preview, the first five of allRows, is left out).
PreflightData(parseResult, merchantMap) ==
    LET rowsWithCategories ==
            [i \in 1..Len(parseResult.rows) |->
                PreflightRow(parseResult.rows[i], merchantMap)]
    IN [format |-> parseResult.format,
        totalRows |-> Len(rowsWithCategories),
        allRows |-> rowsWithCategories,
        learnedCount |-> CountSource(rowsWithCategories, "learned"),
        ruleCount |-> CountSource(rowsWithCategories, "rule"),
        unknownCount |-> CountSource(rowsWithCategories, "unknown")]

\* The merchant map after the learning update of updateTransactionCategory:
\* the mapping of the key is updated, or added when there is none.
LearnMerchant(mappings, key, category) ==
    LET mapping == { m \in mappings : m.merchant_key = key } IN
    (mappings \ mapping)
       \cup { [merchant_key |-> key, category |-> category,
                hits |-> IF mapping # {} THEN (CHOOSE m \in mapping : TRUE).hits + 1
                         ELSE 1] }

\* The hit count of the mapping of a key (0 when there is none).
HitsOf(mappings, key) ==
    IF \E m \in mappings : m.merchant_key = key
    THEN (CHOOSE m \in mappings : m.merchant_key = key).hits
    ELSE 0

\* resetState
ResetState ==
    /\ preflight' = NoPreflight
    /\ result' = NoImport
    /\ error' = ""

\* handleFileChange, lines 270-276: a file is chosen (the input is disabled
\* while a preflight is shown or an import runs).
ChooseFile ==
    /\ reading = "idle"
    /\ ~importing
    /\ preflight = NoPreflight
    /\ \E f \in ImportFiles : file' = f
    /\ ResetState
    /\ fileMerchantMap' = <<>>
    /\ reading' = "load_map"
    /\ UNCHANGED <<store, tabs, parser, categorizer, learning, merchant_map, importing,
                   functions, gmail>>

\* handleFileChange, lines 277-284: the merchant map is loaded.
LoadMerchantMap ==
    /\ reading = "load_map"
    /\ fileMerchantMap' = buildMerchantMap(merchant_map)
    /\ reading' = "read_file"
    /\ UNCHANGED <<store, tabs, parser, categorizer, learning, merchant_map,
                   preflight, importing, result, error, file, functions, gmail>>

\* Mutant: a parse error is shown and the preflight is created all the same.
ReadFileKeepGoing ==
    /\ reading = "read_file"
    /\ LET parseResult == parseCsvText(file) IN
          /\ error' = parseResult.error
          /\ preflight' = PreflightData(parseResult, fileMerchantMap)
    /\ reading' = "idle"
    /\ UNCHANGED <<store, tabs, parser, categorizer, learning, merchant_map,
                   importing, result, file, fileMerchantMap, functions, gmail>>

\* handleFileChange, lines 286-327: the file is read, decoded, parsed; an
\* error of the parser is shown and the call returns, else every row is
\* categorized and the preflight is shown.
ReadFile ==
    /\ reading = "read_file"
    /\ LET parseResult == parseCsvText(file) IN
          IF parseResult.error # ""
          THEN /\ error' = parseResult.error
               /\ preflight' = preflight
          ELSE /\ error' = error
               /\ preflight' = PreflightData(parseResult, fileMerchantMap)
    /\ reading' = "idle"
    /\ UNCHANGED <<store, tabs, parser, categorizer, learning, merchant_map,
                   importing, result, file, fileMerchantMap, functions, gmail>>

\* handleImport, lines 333-360: without a preflight the call returns; else
\* the rows of the preflight are made inputs and bulkCreateTransactions is
\* called (the button is disabled while an import runs).
HandleImport(t) ==
    /\ pc[t] = "idle"
    /\ ~importing
    /\ IF preflight = NoPreflight
       THEN UNCHANGED vars
       ELSE /\ importing' = TRUE
            /\ error' = ""
            /\ items' = [items EXCEPT ![t] =
                           [i \in 1..Len(preflight.allRows) |->
                               CsvInput(preflight.allRows[i])]]
            /\ pc' = [pc EXCEPT ![t] = "bulk_lookup"]
            /\ op' = [op EXCEPT ![t] = "bulk"]
            /\ prior' = [prior EXCEPT ![t] = "none"]
            /\ ResetLocals(t)
            /\ UNCHANGED <<store, msgs, dups, parser, categorizer, learning, merchant_map,
                           preflight, result, reading, file, fileMerchantMap,
                           functions, gmail>>

\* handleImport, lines 361-373: the counts are shown and the preflight is
\* closed, or the error of the call is shown; importing ends either way.
ImportDone(t) ==
    /\ importing
    /\ pc[t] \in {"returned", "threw"}
    /\ IF pc[t] = "returned"
       THEN /\ result' = [inserted |-> inserted[t], skipped |-> skipped[t]]
            /\ preflight' = NoPreflight
            /\ error' = error
       ELSE /\ result' = result
            /\ preflight' = preflight
            /\ error' = err[t]
    /\ importing' = FALSE
    /\ pc' = [pc EXCEPT ![t] = "idle"]
    /\ op' = [op EXCEPT ![t] = "none"]
    /\ items' = [items EXCEPT ![t] = <<>>]
    /\ prior' = [prior EXCEPT ![t] = "none"]
    /\ dups' = [dups EXCEPT ![t] = 0]
    /\ ResetLocals(t)
    /\ UNCHANGED <<store, msgs, parser, categorizer, learning, merchant_map,
                   reading, file, fileMerchantMap, functions, gmail>>

\* handleCancel: the preflight is dismissed.
HandleCancel ==
    /\ preflight # NoPreflight
    /\ ~importing
    /\ ResetState
    /\ UNCHANGED <<store, tabs, parser, categorizer, learning, merchant_map,
                   importing, reading, file, fileMerchantMap, functions, gmail>>

\* Mutant: the learning update writes the description as the key.
updateTransactionCategoryRawKey(existing, category, learnMerchant) ==
    /\ store' = (store \ {existing}) \cup
                   {[existing EXCEPT !.category = category,
                                     !.category_source = "manual"]}
    /\ merchant_map' = IF learnMerchant /\ Truthy(existing.merchant_key)
                       THEN LearnMerchant(merchant_map, existing.description, category)
                       ELSE merchant_map

\* repo.updateTransactionCategory, lines 124-157, on the record it found.
updateTransactionCategory(existing, category, learnMerchant) ==
    /\ store' = (store \ {existing}) \cup
                   {[existing EXCEPT !.category = category,
                                     !.category_source = "manual"]}
    /\ merchant_map' = IF learnMerchant /\ Truthy(existing.merchant_key)
                       THEN LearnMerchant(merchant_map, existing.merchant_key, category)
                       ELSE merchant_map

\* The user assigns a category to a stored record, in the inbox (which
\* teaches the merchant) or in the transaction list (which does not).
AssignCategory ==
    /\ \E existing \in store, category \in InboxCategories, learnMerchant \in BOOLEAN :
          /\ learnMerchant => HitsOf(merchant_map, existing.merchant_key) < MaxHits
          /\ updateTransactionCategory(existing, category, learnMerchant)
    /\ UNCHANGED <<tabs, parser, categorizer, screen, learning, functions, gmail>>

NextScreen ==
    \/ ChooseFile
    \/ LoadMerchantMap
    \/ ReadFile
    \/ HandleImport(SeqTab)
    \/ BulkLookup(SeqTab)
    \/ BulkWrite(SeqTab)
    \/ ImportDone(SeqTab)
    \/ HandleCancel
    \/ AssignCategory

SpecScreen == Init /\ [][NextScreen]_vars

----------------------------------------------------------------------------
(* Learning updates of the merchant map: upsertMerchantMapping and the     *)
(* learning branch of updateTransactionCategory, called by the tabs over a *)
(* store that holds imported and typed records.  Neither runs in a Dexie   *)
(* transaction: each call is cut at its awaits on the tables.              *)

\* The learning updates the tabs start in all.
MaxUpdates == 3

\* A purchase whose description is a number: it has no merchant key.
RowNoKey ==
    <<"2", "0", "2", "4", "-", "0", "1", "-", "1", "8", ",", "4", "0", "0",
      ",", "1", "2">>

\* The records stored before: the rows of a file of two purchases at one
\* merchant and one without a merchant key, imported over an empty
\* merchant map.
LearnStore ==
    LET rows == parseCsvText(JoinLines(<<HeaderLine, RowA, RowASame, RowNoKey>>,
                                       <<"\n">>)).rows
    IN { BulkTxn(CsvInput(PreflightRow(rows[i], <<>>))) : i \in 1..Len(rows) }

\* The merchant keys of the stored records.
LearnKeys == { r.merchant_key : r \in LearnStore } \ {Null}

\* db.merchant_map.get(key): the mapping, or undefined.
GetMapping(key) ==
    IF \E m \in merchant_map : m.merchant_key = key
    THEN CHOOSE m \in merchant_map : m.merchant_key = key
    ELSE NoMapping

\* db.merchant_map.put(mapping): the row of the key is written over or added.
PutMapping(mappings, mapping) ==
    { m \in mappings : m.merchant_key # mapping.merchant_key } \cup {mapping}

\* Learning updates that have completed for a key.
CompletedFor(key) == IF key \in DOMAIN completed THEN completed[key] ELSE 0

\* One more learning update has completed for the key.
Complete(key) ==
    completed' = [k \in DOMAIN completed \cup {key} |->
                     IF k = key THEN CompletedFor(key) + 1 ELSE completed[k]]

\* The learning updates completed for the keys, added up.
RECURSIVE TotalCompleted(_)
TotalCompleted(keys) ==
    IF keys = {} THEN 0
    ELSE LET k == CHOOSE x \in keys : TRUE
         IN completed[k] + TotalCompleted(keys \ {k})

\* Learning updates started: those in flight and those completed.
Started ==
    Cardinality({ t \in Tabs : lpc[t] # "idle" }) + TotalCompleted(DOMAIN completed)

InitLearn ==
    /\ store = LearnStore
    /\ IdleTabs
    /\ IdleParser
    /\ IdleCategorizer
    /\ IdleScreen
    /\ IdleLearning
    /\ IdleGmail
    /\ IdleFunctions

\* upsertMerchantMapping is called (bulkApplyMerchantCategory calls it).
StartUpsert(t) ==
    /\ lpc[t] = "idle"
    /\ Started < MaxUpdates
    /\ \E key \in LearnKeys, category \in InboxCategories :
          lcall' = [lcall EXCEPT ![t] =
                      [merchant_key |-> key, category |-> category, hash |-> <<>>]]
    /\ lpc' = [lpc EXCEPT ![t] = "upsert_get"]
    /\ UNCHANGED <<store, tabs, parser, categorizer, merchant_map, screen,
                   readMapping, completed, functions, gmail>>

\* upsertMerchantMapping, line 232: the mapping of the key is read.
UpsertGet(t) ==
    /\ lpc[t] = "upsert_get"
    /\ readMapping' = [readMapping EXCEPT ![t] = GetMapping(lcall[t].merchant_key)]
    /\ lpc' = [lpc EXCEPT ![t] = "upsert_put"]
    /\ UNCHANGED <<store, tabs, parser, categorizer, merchant_map, screen,
                   lcall, completed, functions, gmail>>

\* upsertMerchantMapping, lines 233-240: the mapping is put with the hit
\* count of the mapping read, plus one.
UpsertPut(t) ==
    /\ lpc[t] = "upsert_put"
    /\ merchant_map' =
          PutMapping(merchant_map,
                     [merchant_key |-> lcall[t].merchant_key,
                      category |-> lcall[t].category,
                      hits |-> IF readMapping[t] # NoMapping
                               THEN readMapping[t].hits + 1 ELSE 1])
    /\ Complete(lcall[t].merchant_key)
    /\ lpc' = [lpc EXCEPT ![t] = "idle"]
    /\ lcall' = [lcall EXCEPT ![t] = NoCall]
    /\ readMapping' = [readMapping EXCEPT ![t] = NoMapping]
    /\ UNCHANGED <<store, tabs, parser, categorizer, screen, functions, gmail>>

\* updateTransactionCategory, lines 128-129, called from the inbox with
\* learnMerchant: the record is read.
StartUpdate(t) ==
    /\ lpc[t] = "idle"
    /\ Started < MaxUpdates
    /\ \E existing \in store, category \in InboxCategories :
          lcall' = [lcall EXCEPT ![t] =
                      [merchant_key |-> existing.merchant_key,
                       category |-> category, hash |-> existing.hash]]
    /\ lpc' = [lpc EXCEPT ![t] = "update_txn"]
    /\ UNCHANGED <<store, tabs, parser, categorizer, merchant_map, screen,
                   readMapping, completed, functions, gmail>>

\* updateTransactionCategory, lines 131-137: the record is updated; without
\* a merchant key the call returns.
UpdateTxn(t) ==
    /\ lpc[t] = "update_txn"
    /\ store' = { IF r.hash = lcall[t].hash
                  THEN [r EXCEPT !.category = lcall[t].category,
                                 !.category_source = "manual"]
                  ELSE r : r \in store }
    /\ IF Truthy(lcall[t].merchant_key)
       THEN /\ lpc' = [lpc EXCEPT ![t] = "update_map_get"]
            /\ lcall' = lcall
       ELSE /\ lpc' = [lpc EXCEPT ![t] = "idle"]
            /\ lcall' = [lcall EXCEPT ![t] = NoCall]
    /\ UNCHANGED <<tabs, parser, categorizer, merchant_map, screen,
                   readMapping, completed, functions, gmail>>

\* updateTransactionCategory, line 138: the mapping of the key is read.
UpdateMapGet(t) ==
    /\ lpc[t] = "update_map_get"
    /\ readMapping' = [readMapping EXCEPT ![t] = GetMapping(lcall[t].merchant_key)]
    /\ lpc' = [lpc EXCEPT ![t] = "update_map_write"]
    /\ UNCHANGED <<store, tabs, parser, categorizer, merchant_map, screen,
                   lcall, completed, functions, gmail>>

\* updateTransactionCategory, lines 139-156: the mapping read is updated
\* with its hit count plus one, or a mapping with hit count 1 is added; add
\* raises when the key has been added meanwhile (merchant_key is the primary
\* key), and the call has not completed.
UpdateMapWrite(t) ==
    /\ lpc[t] = "update_map_write"
    /\ IF readMapping[t] # NoMapping
       THEN /\ merchant_map' =
                  PutMapping(merchant_map,
                             [merchant_key |-> lcall[t].merchant_key,
                              category |-> lcall[t].category,
                              hits |-> readMapping[t].hits + 1])
            /\ Complete(lcall[t].merchant_key)
       ELSE IF GetMapping(lcall[t].merchant_key) # NoMapping
       THEN /\ merchant_map' = merchant_map
            /\ completed' = completed
       ELSE /\ merchant_map' =
                  merchant_map \cup { [merchant_key |-> lcall[t].merchant_key,
                                       category |-> lcall[t].category,
                                       hits |-> 1] }
            /\ Complete(lcall[t].merchant_key)
    /\ lpc' = [lpc EXCEPT ![t] = "idle"]
    /\ lcall' = [lcall EXCEPT ![t] = NoCall]
    /\ readMapping' = [readMapping EXCEPT ![t] = NoMapping]
    /\ UNCHANGED <<store, tabs, parser, categorizer, screen, functions, gmail>>

LearnStep(t) ==
    \/ StartUpsert(t)
    \/ UpsertGet(t)
    \/ UpsertPut(t)
    \/ StartUpdate(t)
    \/ UpdateTxn(t)
    \/ UpdateMapGet(t)
    \/ UpdateMapWrite(t)

NextLearn == \E t \in Tabs : LearnStep(t)

SpecLearn == InitLearn /\ [][NextLearn]_vars

----------------------------------------------------------------------------
(* deriveMerchantKey alone: a description is handed to it                  *)

\* The length of the descriptions handed to deriveMerchantKey.
MaxKeyLen == 3

\* Their characters: two letters (one a capital), a digit, the full-width
\* digit two, a symbol that is stripped and a blank.
KeyChars == {"a", "B", "1", "U+FF12", "#", " "}

KeyDescriptions == SeqsUpTo(KeyChars, MaxKeyLen)

InitKey ==
    /\ store = {}
    /\ IdleTabs
    /\ IdleParser
    /\ descr \in KeyDescriptions
    /\ learnedMap = <<>>
    /\ ruleResult = "none"
    /\ catResult = NoCategorization
    /\ IdleScreen
    /\ IdleLearning
    /\ IdleGmail
    /\ derivedKey = NotDerived
    /\ sjisText = <<>>
    /\ fileBytes = <<>>
    /\ decoded = NotDecoded
    /\ hashArgs = <<>>
    /\ hashTexts = NotHashed
    /\ applyResult = NoApply

DeriveMerchantKey ==
    /\ derivedKey = NotDerived
    /\ derivedKey' = deriveMerchantKey(descr)
    /\ UNCHANGED <<store, tabs, parser, categorizer, merchant_map, screen, learning,
                   sjisText, fileBytes, decoded, hashArgs, hashTexts, applyResult,
                   gmail>>

NextKey == DeriveMerchantKey

SpecKey == InitKey /\ [][NextKey]_vars

----------------------------------------------------------------------------
(* decodeFileContent alone: the bytes of a file saved in Shift_JIS are     *)
(* handed to it.  A text is here a sequence of code points, a file a       *)
(* sequence of bytes.  TextDecoder and the encoding-japanese library are   *)
(* taken to follow the UTF-8 and Shift_JIS (CP932) definitions.            *)

\* The length of the texts saved.
MaxTextLen == 3

\* Characters Shift_JIS has, with their bytes: A, the half-width katakana
\* TE and SU (one byte each), the hiragana A and the katakana SE (two bytes).
SjisTable ==
    << [code |-> 65, bytes |-> <<65>>],
       [code |-> 65411, bytes |-> <<195>>],
       [code |-> 65405, bytes |-> <<189>>],
       [code |-> 12354, bytes |-> <<130, 160>>],
       [code |-> 12475, bytes |-> <<131, 90>>] >>

SjisTexts == SeqsUpTo({ SjisTable[k].code : k \in 1..Len(SjisTable) }, MaxTextLen)

\* The Shift_JIS bytes of a text over those characters.
RECURSIVE EncodeSjis(_)
EncodeSjis(text) ==
    IF text = <<>> THEN <<>>
    ELSE (CHOOSE e \in Range(SjisTable) : e.code = Head(text)).bytes
            \o EncodeSjis(Tail(text))

\* A continuation byte of UTF-8.
IsCont(bytes, i) == i <= Len(bytes) /\ bytes[i] >= 128 /\ bytes[i] <= 191

\* The well-formed UTF-8 sequence that starts at byte i: its length and its
\* code point; length 0 when there is none (no overlong form, no surrogate,
\* nothing above U+10FFFF).
Utf8At(bytes, i) ==
    LET b == bytes[i] IN
    IF b <= 127 THEN [len |-> 1, code |-> b]
    ELSE IF b >= 194 /\ b <= 223 /\ IsCont(bytes, i + 1)
    THEN [len |-> 2, code |-> (b - 192) * 64 + (bytes[i + 1] - 128)]
    ELSE IF /\ b >= 224 /\ b <= 239
            /\ IsCont(bytes, i + 1) /\ IsCont(bytes, i + 2)
            /\ (b = 224 => bytes[i + 1] >= 160)
            /\ (b = 237 => bytes[i + 1] <= 159)
    THEN [len |-> 3,
          code |-> (b - 224) * 4096 + (bytes[i + 1] - 128) * 64 + (bytes[i + 2] - 128)]
    ELSE IF /\ b >= 240 /\ b <= 244
            /\ IsCont(bytes, i + 1) /\ IsCont(bytes, i + 2) /\ IsCont(bytes, i + 3)
            /\ (b = 240 => bytes[i + 1] >= 144)
            /\ (b = 244 => bytes[i + 1] <= 143)
    THEN [len |-> 4,
          code |-> (b - 240) * 262144 + (bytes[i + 1] - 128) * 4096
                      + (bytes[i + 2] - 128) * 64 + (bytes[i + 3] - 128)]
    ELSE [len |-> 0, code |-> 0]

\* new TextDecoder('utf-8', { fatal: true }).decode from byte i on: the text,
\* or a TypeError on the first sequence that is not well formed.
RECURSIVE Utf8From(_, _)
Utf8From(bytes, i) ==
    IF i > Len(bytes) THEN [threw |-> FALSE, text |-> <<>>]
    ELSE LET at == Utf8At(bytes, i) IN
         IF at.len = 0 THEN [threw |-> TRUE, text |-> <<>>]
         ELSE LET rest == Utf8From(bytes, i + at.len) IN
              [threw |-> rest.threw, text |-> <<at.code>> \o rest.text]

\* The decoder leaves out a byte order mark at the start.
TextDecoderDecode(bytes) ==
    IF Len(bytes) >= 3 /\ SubSeq(bytes, 1, 3) = <<239, 187, 191>>
    THEN Utf8From(bytes, 4)
    ELSE Utf8From(bytes, 1)

\* Encoding.convert(bytes, { to: 'UNICODE', from: 'SJIS' }): a byte below 128
\* is itself, a byte from 0xA1 to 0xDF a half-width katakana, a lead byte
\* takes the next byte with it; what the table does not hold becomes '?'.
RECURSIVE ConvertFromSjis(_)
ConvertFromSjis(bytes) ==
    IF bytes = <<>> THEN <<>>
    ELSE LET b == Head(bytes) IN
         IF b <= 127 THEN <<b>> \o ConvertFromSjis(Tail(bytes))
         ELSE IF b >= 161 /\ b <= 223
         THEN <<65377 + (b - 161)>> \o ConvertFromSjis(Tail(bytes))
         ELSE IF Len(bytes) >= 2
                 /\ \E e \in Range(SjisTable) : e.bytes = SubSeq(bytes, 1, 2)
         THEN <<(CHOOSE e \in Range(SjisTable) : e.bytes = SubSeq(bytes, 1, 2)).code>>
                 \o ConvertFromSjis(SubSeq(bytes, 3, Len(bytes)))
         ELSE <<63>> \o ConvertFromSjis(Tail(bytes))

\* Encoding.detect, as far as decodeFileContent tells its results apart:
\* bytes that are well-formed UTF-8 are detected as UTF8; for other bytes
\* the result (SJIS, ASCII, or another encoding) leads to the same decoding.
EncodingDetect(bytes) ==
    IF ~Utf8From(bytes, 1).threw THEN "UTF8" ELSE "SJIS"

\* decodeFileContent: UTF-8 first (the text is returned unless decoding
\* raises or the text holds U+FFFD), then what the library detects.
decodeFileContent(bytes) ==
    LET utf8 == TextDecoderDecode(bytes) IN
    IF ~utf8.threw /\ 65533 \notin Range(utf8.text) THEN utf8.text
    ELSE IF EncodingDetect(bytes) = "UTF8" THEN Utf8From(bytes, 1).text
    ELSE ConvertFromSjis(bytes)

InitDecode ==
    /\ store = {}
    /\ IdleTabs
    /\ IdleParser
    /\ IdleCategorizer
    /\ IdleScreen
    /\ IdleLearning
    /\ IdleGmail
    /\ derivedKey = NotDerived
    /\ sjisText \in SjisTexts
    /\ fileBytes = EncodeSjis(sjisText)
    /\ decoded = NotDecoded
    /\ hashArgs = <<>>
    /\ hashTexts = NotHashed
    /\ applyResult = NoApply

DecodeFileContent ==
    /\ decoded = NotDecoded
    /\ decoded' = decodeFileContent(fileBytes)
    /\ UNCHANGED <<store, tabs, parser, categorizer, merchant_map, screen, learning,
                   derivedKey, sjisText, fileBytes, hashArgs, hashTexts, applyResult,
                   gmail>>

NextDecode == DecodeFileContent

SpecDecode == InitDecode /\ [][NextDecode]_vars

----------------------------------------------------------------------------
(* The transaction detail sheet: a stored record is edited in place        *)

\* The hit count up to which the detail sheet and the inbox teach a merchant.
MaxInboxHits == 2

\* How many records the producers store.
MaxStored == 2

\* The records each producer stores for the purchases, over an empty
\* merchant map and with the fallback categorization.
ProducedRecords ==
    { BulkTxn(CsvInput(row)) : row \in PreflightRows(Fallback) }
       \cup { NewTxn(ManualInput(form)) : form \in ManualForms }
       \cup { NewTxn(GmailInput(parseVpassEmail(mail), c)) : mail \in VpassMails, c \in Fallback }

\* A producer stores a record, one call at a time: a record whose hash is
\* stored already is not added (createTransaction returns the stored one,
\* bulkCreateTransactions skips it).
StoreProduced ==
    \E r \in ProducedRecords :
       /\ Cardinality(store) < MaxStored
       /\ r.hash \notin HashesOf(store)
       /\ store' = store \cup {r}
       /\ UNCHANGED <<tabs, others>>

\* What the user can leave in the amount and memo fields and pick as
\* category, besides what the sheet shows when it opens.
EditAmounts == {250}
EditMemos == { <<"T", " ">> }
EditCategories == {"Food"}

\* repo.updateTransaction: the fields given replace the stored ones, every
\* other field of the record (the hash among them) stays.
updateTransaction(transaction, updates) ==
    [transaction EXCEPT !.category = updates.category,
                        !.wallet = updates.wallet,
                        !.amount = updates.amount,
                        !.description = updates.description]

\* TransactionDetailSheet.handleSave with the sheet open on a stored record:
\* the record is updated, and a changed category is learned for the record's
\* merchant key (or the key of the memo).
HandleSave ==
    \E transaction \in store :
    \E parsedAmount \in EditAmounts \cup {Abs(transaction.amount)} :
    \E memo \in EditMemos \cup {transaction.description} :
    \E category \in EditCategories \cup {OrElse(transaction.category, "Mibunrui")} :
       LET wallet == OrElse(transaction.wallet, "personal")
           key == IF Truthy(transaction.merchant_key) THEN transaction.merchant_key
                  ELSE deriveMerchantKey(IF memo # <<>> THEN memo
                                         ELSE transaction.description)
           learns == transaction.category # category /\ Truthy(key)
       IN /\ parsedAmount > 0
          /\ learns => HitsOf(merchant_map, key) < MaxInboxHits
          /\ store' = (store \ {transaction})
                 \cup { updateTransaction(transaction,
                           [category |-> category,
                            wallet |-> wallet,
                            amount |-> IF transaction.amount < 0 THEN -Abs(parsedAmount)
                                       ELSE Abs(parsedAmount),
                            description |-> Trim(memo)]) }
          /\ merchant_map' = IF learns THEN LearnMerchant(merchant_map, key, category)
                             ELSE merchant_map
          /\ UNCHANGED <<tabs, parser, categorizer, screen, learning, functions, gmail>>

InitEdit ==
    /\ store = {}
    /\ IdleTabs
    /\ IdleParser
    /\ IdleCategorizer
    /\ IdleScreen
    /\ IdleLearning
    /\ IdleGmail
    /\ IdleFunctions

NextEdit == StoreProduced \/ HandleSave

SpecEdit == InitEdit /\ [][NextEdit]_vars

----------------------------------------------------------------------------
(* generateHash alone: the text it digests, for two candidates             *)

\* The length of the descriptions hashed.
MaxDescLen == 2

DateOne == <<"2", "0", "2", "4", "-", "0", "1", "-", "1", "5">>
DateTwo == <<"2", "0", "2", "4", "-", "0", "1", "-", "1", "6">>

\* Dates as the producers pass them (the ten characters of YYYY-MM-DD),
\* absolute amounts, and descriptions that may start with a digit.
HashDates == {DateOne, DateTwo}
HashAmounts == {1, 10, 100}
HashDescriptions == SeqsUpTo({"0", "x"}, MaxDescLen)

HashCandidates ==
    [date : HashDates, amount : HashAmounts, description : HashDescriptions]

\* generateHash, the template literal it digests: the date, the amount as
\* JavaScript prints it and the description, character after character.
\* The digest itself is taken to tell different texts apart.
hashText(date, amount, description) ==
    date \o NumberToString(amount) \o description

InitHash ==
    /\ store = {}
    /\ IdleTabs
    /\ IdleParser
    /\ IdleCategorizer
    /\ IdleScreen
    /\ IdleLearning
    /\ IdleGmail
    /\ derivedKey = NotDerived
    /\ sjisText = <<>>
    /\ fileBytes = <<>>
    /\ decoded = NotDecoded
    /\ hashArgs \in HashCandidates \X HashCandidates
    /\ hashTexts = NotHashed
    /\ applyResult = NoApply

GenerateHash ==
    /\ hashTexts = NotHashed
    /\ hashTexts' = [i \in 1..2 |-> hashText(hashArgs[i].date, hashArgs[i].amount,
                                             hashArgs[i].description)]
    /\ UNCHANGED <<store, tabs, parser, categorizer, merchant_map, screen, learning,
                   derivedKey, sjisText, fileBytes, decoded, hashArgs, applyResult,
                   gmail>>

NextHash == GenerateHash

SpecHash == InitHash /\ [][NextHash]_vars

----------------------------------------------------------------------------
(* syncGmail as a whole: the messages listed after the stored sync time,   *)
(* the loop over them, the batch insert, the sync record and the result    *)

\* The last second of the clock.
MaxClock == 2

\* The notification messages that can arrive: two identical notifications
\* of the grocery purchase, one of the cafe purchase, and a message whose
\* body is missing or is not in the notification format.
MessageIds == {1, 2, 3, 4}

MailOf(id) ==
    IF id = 3 THEN [date |-> "2024-01-15", merchant |-> Cafe, yen |-> 100]
    ELSE [date |-> "2024-01-15", merchant |-> Grocery, yen |-> 1500]

Bodies(id) == IF id = 4 THEN {"none", "other"} ELSE {"vpass"}

\* The messages newest first, as the Gmail API lists them.
RECURSIVE NewestFirst(_)
NewestFirst(messages) ==
    IF messages = {} THEN <<>>
    ELSE LET newest == CHOOSE m \in messages :
                          \A o \in messages :
                             m.time > o.time \/ (m.time = o.time /\ m.id >= o.id)
         IN <<newest>> \o NewestFirst(messages \ {newest})

\* listVpassMessages: every notification when no sync time is stored, else
\* the notifications of the query "after:" that second (taken to include
\* the second itself).
listVpassMessages(after) ==
    NewestFirst({ m \in mailbox : after = NoSync \/ m.time >= after })

\* Mutant: the rows the batch insert skipped are not added to the result.
AddInsertResultInsertedOnly(res, insertResult) ==
    [res EXCEPT !.newTransactions = insertResult.inserted]

\* syncGmail, lines 259-260: the result of the batch insert is added up.
AddInsertResult(res, insertResult) ==
    [res EXCEPT !.newTransactions = insertResult.inserted,
                !.duplicatesSkipped = @ + insertResult.skipped]

\* A notification arrives in the account.
Arrive ==
    /\ \E id \in MessageIds, body \in {"vpass", "none", "other"} :
          /\ body \in Bodies(id)
          /\ id \notin { m.id : m \in mailbox }
          /\ mailbox' = mailbox \cup {[id |-> id, time |-> clock, body |-> body]}
    /\ UNCHANGED <<store, tabs, parser, categorizer, merchant_map, screen, learning,
                   functions, clock, last_sync_at, spc, listed, pending, syncResult,
                   transactionInputs, staged>>

\* A second passes.
Tick ==
    /\ clock < MaxClock
    /\ clock' = clock + 1
    /\ UNCHANGED <<store, tabs, parser, categorizer, merchant_map, screen, learning,
                   functions, mailbox, last_sync_at, spc, listed, pending, syncResult,
                   transactionInputs, staged>>

\* syncGmail, lines 199-213: the messages after the stored sync time are
\* listed; with none the empty result is returned.
StartSyncGmail ==
    /\ spc = "idle"
    /\ LET messages == listVpassMessages(last_sync_at) IN
          /\ listed' = messages
          /\ pending' = messages
          /\ spc' = IF Len(messages) = 0 THEN "returned" ELSE "loop"
    /\ syncResult' = NoSyncResult
    /\ transactionInputs' = <<>>
    /\ staged' = NoBulk
    /\ UNCHANGED <<store, tabs, parser, categorizer, merchant_map, screen, learning,
                   functions, mailbox, clock, last_sync_at>>

\* syncGmail, lines 215-255: one message: the fetch (which may fail), the
\* body, the parse, the hash and its lookup, and the input queued.
ProcessMessage(fetched) ==
    /\ spc = "loop"
    /\ pending # <<>>
    /\ LET msg == Head(pending)
           parsed == parseVpassEmail(MailOf(msg.id))
       IN IF ~fetched \/ msg.body # "vpass"
          THEN /\ syncResult' = [syncResult EXCEPT !.errors = Append(@, msg.id)]
               /\ transactionInputs' = transactionInputs
          ELSE IF FindByHash(GmailHash(parsed)) # NoTxn
          THEN /\ syncResult' = [syncResult EXCEPT !.duplicatesSkipped = @ + 1]
               /\ transactionInputs' = transactionInputs
          ELSE /\ syncResult' = syncResult
               /\ \E c \in Fallback :
                     transactionInputs' = Append(transactionInputs, GmailInput(parsed, c))
    /\ pending' = Tail(pending)
    /\ UNCHANGED <<store, tabs, parser, categorizer, merchant_map, screen, learning,
                   functions, mailbox, clock, last_sync_at, spc, listed, staged>>

\* syncGmail, lines 257-258, and bulkCreateTransactions up to its write:
\* with inputs queued the batch insert looks the hashes up and passes over
\* the inputs; with nothing to write it returns its counts at once.
SyncBulkLookup ==
    /\ spc = "loop"
    /\ pending = <<>>
    /\ IF Len(transactionInputs) > 0
       THEN LET hashes == { transactionInputs[i].hash : i \in 1..Len(transactionInputs) }
                acc == BulkPass(transactionInputs, FindByHashes(hashes))
            IN /\ staged' = acc
               /\ IF Len(acc.toInsert) > 0
                  THEN /\ spc' = "write"
                       /\ syncResult' = syncResult
                  ELSE /\ spc' = "put"
                       /\ syncResult' = AddInsertResult(syncResult, acc)
       ELSE /\ spc' = "put"
            /\ UNCHANGED <<staged, syncResult>>
    /\ UNCHANGED <<store, tabs, parser, categorizer, merchant_map, screen, learning,
                   functions, mailbox, clock, last_sync_at, listed, pending,
                   transactionInputs>>

\* bulkCreateTransactions, the bulkAdd: when the unique index rejects a row
\* the call raises and so does syncGmail; else the counts are added up.
SyncBulkWrite ==
    /\ spc = "write"
    /\ LET res == AddRows(store, staged.toInsert, 1) IN
          IF res.failed
          THEN /\ \E atomic \in BOOLEAN :
                     store' = IF atomic THEN store ELSE res.records
               /\ spc' = "threw"
               /\ syncResult' = syncResult
          ELSE /\ store' = res.records
               /\ spc' = "put"
               /\ syncResult' = AddInsertResult(syncResult, staged)
    /\ UNCHANGED <<tabs, parser, categorizer, merchant_map, screen, learning,
                   functions, mailbox, clock, last_sync_at, listed, pending,
                   transactionInputs, staged>>

\* syncGmail, lines 263-270: the sync record is written with the time it is
\* now, and the result is returned.
SyncPut ==
    /\ spc = "put"
    /\ last_sync_at' = clock
    /\ spc' = "returned"
    /\ UNCHANGED <<store, tabs, parser, categorizer, merchant_map, screen, learning,
                   functions, mailbox, clock, listed, pending, syncResult,
                   transactionInputs, staged>>

\* The call is over; its result has been shown.
SyncFinish ==
    /\ spc \in {"returned", "threw"}
    /\ spc' = "idle"
    /\ listed' = <<>>
    /\ pending' = <<>>
    /\ syncResult' = NoSyncResult
    /\ transactionInputs' = <<>>
    /\ staged' = NoBulk
    /\ UNCHANGED <<store, tabs, parser, categorizer, merchant_map, screen, learning,
                   functions, mailbox, clock, last_sync_at>>

\* The sync of another tab, on its way, stores the record of a notification.
OtherTabStores ==
    /\ \E m \in mailbox, c \in Fallback :
          LET r == BulkTxn(GmailInput(parseVpassEmail(MailOf(m.id)), c)) IN
             /\ m.body = "vpass"
             /\ r.hash \notin HashesOf(store)
             /\ store' = store \cup {r}
    /\ UNCHANGED <<tabs, others>>

NextSync ==
    \/ Arrive
    \/ Tick
    \/ StartSyncGmail
    \/ ProcessMessage(TRUE)
    \/ ProcessMessage(FALSE)
    \/ SyncBulkLookup
    \/ SyncBulkWrite
    \/ SyncPut
    \/ SyncFinish
    \/ OtherTabStores

SpecSync == Init /\ [][NextSync]_vars

----------------------------------------------------------------------------
(* The uncategorized inbox: a category is assigned to one record and       *)
(* applied to the uncategorized records of the same merchant               *)

\* The records of an imported file: two of the merchant 'gr' and one
\* without a merchant key, not categorized, and one of the merchant 'go',
\* categorized by a rule.
InboxStore ==
    LET rows == parseCsvText(JoinLines(<<HeaderLine, RowA, RowASame, RowGo, RowNoKey>>,
                                       <<"\n">>)).rows
    IN { BulkTxn(CsvInput(PreflightRow(rows[i], <<>>))) : i \in 1..Len(rows) }

InboxKeys == { r.merchant_key : r \in InboxStore } \ {Null}

\* Mutant: the category of a record is not looked at.
MatchingAnyCategory(records, merchantKey) ==
    { t \in records : t.merchant_key = merchantKey }

\* bulkApplyMerchantCategory, lines 251-255: the records of the merchant key
\* whose category is the sentinel.
Matching(records, merchantKey) ==
    { t \in records : t.merchant_key = merchantKey /\ t.category = "Uncategorized" }

\* bulkApplyMerchantCategory, lines 257-261: bulkPut replaces each matching
\* record by its copy with the category, marked as learned.
ApplyToMatching(records, merchantKey, category) ==
    LET matching == Matching(records, merchantKey) IN
    (records \ matching)
       \cup { [t EXCEPT !.category = category, !.category_source = "learned"] :
               t \in matching }

\* bulkApplyMerchantCategory called on its own, one call at a time.
BulkApplyMerchantCategory ==
    /\ applyResult = NoApply
    /\ \E merchantKey \in InboxKeys, category \in InboxCategories :
          /\ HitsOf(merchant_map, merchantKey) < MaxInboxHits
          /\ merchant_map' = LearnMerchant(merchant_map, merchantKey, category)
          /\ store' = ApplyToMatching(store, merchantKey, category)
          /\ applyResult' = [merchantKey |-> merchantKey, category |-> category,
                             updated |-> Cardinality(Matching(store, merchantKey))]
    /\ UNCHANGED <<tabs, parser, categorizer, screen, learning, gmail,
                   derivedKey, sjisText, fileBytes, decoded, hashArgs, hashTexts>>

\* The caller has read the count.
ApplyReturned ==
    /\ applyResult # NoApply
    /\ applyResult' = NoApply
    /\ UNCHANGED <<store, tabs, parser, categorizer, merchant_map, screen, learning,
                   gmail, derivedKey, sjisText, fileBytes, decoded, hashArgs, hashTexts>>

\* UncategorizedInbox.handleCategorize, one call at a time: the record gets
\* the category and teaches its merchant; when other records of the inbox
\* have its merchant key, the category is applied to them.
HandleCategorize ==
    /\ applyResult = NoApply
    /\ LET uncategorized == { t \in store : t.category \in {"Uncategorized", "Mibunrui"} } IN
       \E transaction \in uncategorized, category \in InboxCategories :
          LET key == transaction.merchant_key
              sameKey == { t \in uncategorized : t # transaction /\ t.merchant_key = key }
              applies == Truthy(key) /\ sameKey # {}
              updatedStore == (store \ {transaction})
                                 \cup {[transaction EXCEPT !.category = category,
                                                           !.category_source = "manual"]}
              updatedMap == IF Truthy(key) THEN LearnMerchant(merchant_map, key, category)
                            ELSE merchant_map
          IN /\ Truthy(key) => HitsOf(merchant_map, key) + (IF applies THEN 2 ELSE 1) <= MaxInboxHits
             /\ store' = IF applies THEN ApplyToMatching(updatedStore, key, category)
                         ELSE updatedStore
             /\ merchant_map' = IF applies THEN LearnMerchant(updatedMap, key, category)
                                ELSE updatedMap
    /\ UNCHANGED <<tabs, parser, categorizer, screen, learning, functions, gmail>>

InitInbox ==
    /\ store = InboxStore
    /\ IdleTabs
    /\ IdleParser
    /\ IdleCategorizer
    /\ IdleScreen
    /\ IdleLearning
    /\ IdleGmail
    /\ IdleFunctions

NextInbox ==
    \/ AssignCategory
    \/ HandleCategorize
    \/ BulkApplyMerchantCategory
    \/ ApplyReturned

SpecInbox == InitInbox /\ [][NextInbox]_vars

----------------------------------------------------------------------------
(* Properties                                                              *)

\* The batch insert of tab t has made its pass over the items.
PassDone(t) == pc[t] \in {"bulk_write", "returned", "threw"} /\ reads[t] > 0

\* The batch insert of tab t has returned its counts.
BulkReturned(t) == pc[t] = "returned" /\ reads[t] > 0

ItemHashes(t) == { items[t][i].hash : i \in 1..Len(items[t]) }

StoredWith(h) == { r \in store : r.hash = h }

IndexPermutations(n) == { f \in [1..n -> 1..n] : \A i, j \in 1..n : i # j => f[i] # f[j] }

\* The first item of its with hash h.
FirstWith(its, h) == its[CHOOSE i \in 1..Len(its) :
                            /\ its[i].hash = h
                            /\ \A j \in 1..(i - 1) : its[j].hash # h]

\* C1: every batch insert that returns reports inserted + skipped equal to
\* the number of candidates it was given, the empty batch included.
C1_CountsAddUp ==
    \A t \in Tabs : BulkReturned(t) => inserted[t] + skipped[t] = Len(items[t])

C1_Witness ==
    \E t \in Tabs : BulkReturned(t) /\ inserted[t] >= 1 /\ skipped[t] >= 1

\* C2: the store never holds two records with the same hash, whatever
\* sequence of single inserts, batch inserts and Gmail syncs ran and however
\* two tabs interleaved; when the store rejected a racing write, exactly
\* one record is kept for the hash the two writes had in common.
C2_HashUnique ==
    /\ \A r1, r2 \in store : r1.hash = r2.hash => r1 = r2
    /\ \A t \in Tabs :
          err[t] = "ConstraintError"
             => \E h \in ItemHashes(t) : Cardinality(StoredWith(h)) = 1

C2_Witness ==
    \E t \in Tabs :
       /\ op[t] = "bulk" /\ err[t] = "ConstraintError"
       /\ \E u \in Tabs : u # t /\ op[u] = "bulk" /\ pc[u] = "returned"
                            /\ ItemHashes(u) \cap ItemHashes(t) # {}
       /\ \A h \in ItemHashes(t) : Cardinality(StoredWith(h)) <= 1

\* C3: a batch whose lookup found none of its hashes in the store counts
\* inserted = the number of distinct hashes of the batch and skipped = the
\* number of repeated occurrences.
C3_FreshBatchCounts ==
    \A t \in Tabs :
       (PassDone(t) /\ found[t] = {})
          => /\ inserted[t] = Cardinality(ItemHashes(t))
             /\ skipped[t] = Len(items[t]) - Cardinality(ItemHashes(t))

C3_Witness ==
    \E t \in Tabs :
       /\ BulkReturned(t) /\ found[t] = {}
       /\ Len(items[t]) = 2 /\ items[t][1] = items[t][2]
       /\ inserted[t] = 1 /\ skipped[t] = 1

\* C4: importing the same batch again after it was imported stages nothing:
\* the second call returns inserted = 0 and skipped = the number of
\* candidates and makes no write to the store.
C4_ReimportIdempotent ==
    \A t \in Tabs :
       (prior[t] = "ok" /\ pc[t] # "bulk_lookup")
          => /\ pc[t] = "returned"
             /\ inserted[t] = 0
             /\ skipped[t] = Len(items[t])
             /\ toInsert[t] = <<>>
             /\ writes[t] = 0
             /\ \A h \in ItemHashes(t) : Cardinality(StoredWith(h)) = 1

C4_Witness ==
    \E t \in Tabs :
       /\ prior[t] = "ok" /\ pc[t] = "returned"
       /\ Len(items[t]) = 2 /\ items[t][1] = items[t][2]
       /\ inserted[t] = 0 /\ skipped[t] = 2

\* C5: no single insert and no batch insert raises an error because of a
\* hash that is already stored (the claim; the code lets the store's
\* ConstraintError escape when two calls race).
C5_DuplicateNeverRaises ==
    \A t \in Tabs : err[t] # "ConstraintError"

\* C6: the same purchase (date, absolute amount, description) is stored
\* once, whichever producers reported it (the claim; the Gmail sync hashes
\* the negated amount, so its hash differs from the CSV import's).
C6_OneRecordPerPurchase ==
    \A r1, r2 \in store :
       (r1.date = r2.date /\ Abs(r1.amount) = Abs(r2.amount)
           /\ r1.description = r2.description)
          => r1.hash = r2.hash

\* C7: a step of an insert call never changes a record that is already
\* stored, and a single insert that finds its hash stored returns the stored
\* record and leaves the store as it is.
C7_DuplicateLeavesStore ==
    [][\A t \in Tabs :
          /\ (pc[t] \in {"create_lookup", "create_add", "bulk_lookup", "bulk_write"}
                 /\ pc'[t] # pc[t])
                => \A r \in store : r \in store'
          /\ (pc[t] = "create_lookup" /\ pc'[t] # pc[t]
                 /\ StoredWith(items[t][1].hash) # {})
                => /\ store' = store
                   /\ pc'[t] = "returned"
                   /\ ret'[t] \in StoredWith(items[t][1].hash)]_vars

C7_Witness ==
    \E t \in Tabs :
       /\ op[t] = "create" /\ pc[t] = "returned" /\ writes[t] = 0
       /\ ret[t] \in store
       /\ ret[t].category_source = "manual"
       /\ ret[t].category # items[t][1].category

\* C8: a batch run again after its write failed raises no error of its own
\* (only a new store fault can fail it), and once it returns the store holds
\* exactly one record for every hash of the batch.
C8_RetryAfterFailure ==
    \A t \in Tabs :
       prior[t] = "failed"
          => /\ err[t] # "ConstraintError"
             /\ pc[t] = "returned"
                   => \A h \in ItemHashes(t) : Cardinality(StoredWith(h)) = 1

C8_Witness ==
    \E t \in Tabs :
       /\ prior[t] = "failed" /\ pc[t] = "returned"
       /\ inserted[t] >= 1 /\ skipped[t] >= 1

\* C9: every permutation of the batch's rows gives the same inserted and
\* skipped totals and the same set of stored hashes; the record staged for
\* a hash is built from the first row in input order with that hash.
C9_OrderIndependentTotals ==
    \A t \in Tabs :
       (PassDone(t) /\ pc[t] # "threw")
          => /\ \A f \in IndexPermutations(Len(items[t])) :
                   LET q == [i \in 1..Len(items[t]) |-> items[t][f[i]]]
                       acc == BulkPass(q, found[t])
                   IN /\ acc.inserted = inserted[t]
                      /\ acc.skipped = skipped[t]
                      /\ HashesOf(Range(acc.toInsert)) = HashesOf(Range(toInsert[t]))
                      /\ \A i \in 1..Len(acc.toInsert) :
                            acc.toInsert[i] = BulkTxn(FirstWith(q, acc.toInsert[i].hash))
             /\ pc[t] = "returned"
                   => HashesOf(store) \cap ItemHashes(t) = ItemHashes(t)

C9_Witness ==
    \E t \in Tabs :
       /\ BulkReturned(t) /\ Len(items[t]) = 2
       /\ items[t][1].hash = items[t][2].hash
       /\ items[t][1] # items[t][2]
       /\ inserted[t] = 1
       /\ BulkTxn(items[t][1]) \in store

\* C10: a batch insert reads the store exactly once and writes it at most
\* once: once when something is staged, never when nothing is.
C10_OneReadOneWrite ==
    \A t \in Tabs :
       op[t] \in {"bulk", "sync"}
          => /\ reads[t] <= 1 /\ writes[t] <= 1
             /\ pc[t] = "bulk_write" => (reads[t] = 1 /\ writes[t] = 0)
             /\ (pc[t] \in {"returned", "threw"} /\ reads[t] > 0)
                   => writes[t] = IF Len(toInsert[t]) > 0 THEN 1 ELSE 0

C10_Witness ==
    \E t \in Tabs :
       /\ BulkReturned(t) /\ Len(items[t]) = MaxBatch
       /\ reads[t] = 1 /\ writes[t] = 1 /\ Len(toInsert[t]) = MaxBatch

----------------------------------------------------------------------------
(* Properties of the CSV parser                                            *)

Parsed == csvResult # NoResult

\* The lines of the text that are not blank.
NonBlankLines(text) ==
    LET lines == SplitLines(text)
    IN { i \in 1..Len(lines) : lines[i] \notin Seq(WhiteSpace) }

\* C12: parseCsvText returns an error exactly when it returns no rows: a
\* text with fewer than two non-blank lines or with neither format detected
\* gives an error and no rows, a detected format with no surviving row
\* gives an error, and a result without error has at least one row.
C12_ErrorIffNoRows ==
    Parsed =>
       LET rows == parseCsvRows(csvText) IN
       /\ (csvResult.error # "") <=> (csvResult.rows = <<>>)
       /\ (Cardinality(NonBlankLines(csvText)) < 2 \/ detectFormat(rows) = "null")
             => (csvResult.error # "" /\ csvResult.rows = <<>>)
       /\ csvResult.error = "" => Len(csvResult.rows) >= 1

C12_Witness ==
    /\ Parsed
    /\ detectFormat(parseCsvRows(csvText)) = "B"
    /\ csvResult.error = NoValidRows("B")
    /\ csvResult.rows = <<>>

Detected == csvFormat # "none"

\* The first row holds the three header names, in any case and position.
HasHeaderNames(rows) ==
    /\ Len(rows) >= 1
    /\ \A name \in {DateName, AmountName, DescriptionName} :
          \E i \in 1..Len(rows[1]) : Trim(toLowerCase(rows[1][i])) = name

\* The second row has six fields or more and a YYYY/MM/DD first field.
SecondRowIsB(rows) ==
    /\ Len(rows) >= 2
    /\ Len(rows[2]) >= 6
    /\ MatchesDate(rows[2][1], "/")

\* C13 as claimed: every table whose first row holds the header names is
\* detected as A, and a table is detected as B only when the header test
\* fails and the second-row test passes.
C13_HeaderAlwaysA ==
    Detected =>
       LET rows == parseCsvRows(csvText) IN
       /\ HasHeaderNames(rows) => csvFormat = "A"
       /\ csvFormat = "B" => (~HasHeaderNames(rows) /\ SecondRowIsB(rows))

\* C13: every table of two rows or more whose first row holds the header
\* names is detected as A, whatever its second row is, and a table is
\* detected as B only when the header test fails and the second-row test
\* passes; a table of fewer than two rows is detected as neither.
C13_FormatAPriority ==
    Detected =>
       LET rows == parseCsvRows(csvText) IN
       /\ (Len(rows) >= 2 /\ HasHeaderNames(rows)) => csvFormat = "A"
       /\ csvFormat = "B" => (~HasHeaderNames(rows) /\ SecondRowIsB(rows))
       /\ Len(rows) < 2 => csvFormat = "null"

C13_Witness ==
    /\ csvFormat = "A"
    /\ HasHeaderNames(parseCsvRows(csvText))
    /\ SecondRowIsB(parseCsvRows(csvText))

\* The line break a text uses.
BreakOf(text) ==
    IF \E i \in 1..Len(text) : text[i] = "\r" THEN <<"\r", "\n">> ELSE <<"\n">>

\* The text with its first line replaced.
WithFirstLine(text, line) ==
    JoinLines([SplitLines(text) EXCEPT ![1] = line], BreakOf(text))

\* C14: two texts that are both detected as Format B and differ only in
\* their first (metadata) row give the same result; every returned row is
\* taken from a row after the first and the error text is a fixed message.
C14_MetadataIgnored ==
    (/\ Parsed
     /\ SplitLines(csvText)[1] \notin Seq(WhiteSpace)
     /\ detectFormat(parseCsvRows(csvText)) = "B")
       => /\ \A meta \in CsvLines \ {BlankLine} :
                LET other == parseCsvText(WithFirstLine(csvText, meta))
                IN other.format = "B" => other = csvResult
          /\ csvResult.error \in {"", NoValidRows("B")}
          /\ \A k \in 1..Len(csvResult.rows) :
                \E i \in 2..Len(parseCsvRows(csvText)) :
                   LET row == parseCsvRows(csvText)[i]
                   IN /\ csvResult.rows[k].date = convertDateFormat(row[1])
                      /\ csvResult.rows[k].description = row[2]

C14_Witness ==
    /\ Parsed
    /\ csvResult.format = "B"
    /\ Len(csvResult.rows) = 2
    /\ SplitLines(csvText)[1] = MetaLine
    /\ detectFormat(parseCsvRows(WithFirstLine(csvText, RowB))) = "B"
    /\ parseCsvText(WithFirstLine(csvText, RowB)) = csvResult

\* The field is an integer: an optional sign and digits, nothing else.
IsInteger(field) ==
    LET body == IF field # <<>> /\ Head(field) \in {"+", "-"} THEN Tail(field) ELSE field
    IN body # <<>> /\ \A i \in 1..Len(body) : body[i] \in Digits

\* The column of the header that holds the name (0 when none does).
ColumnOf(rows, name) == indexOf(HeaderOf(rows), name) + 1

\* The data row has the three named columns, none of them empty, an integer
\* in the amount column and a YYYY-MM-DD date.
WellFormedA(rows, i) ==
    LET row == rows[i]
        cols == { ColumnOf(rows, name) : name \in {DateName, AmountName, DescriptionName} }
    IN /\ \A c \in cols : c \in 1..Len(row) /\ row[c] # <<>>
       /\ IsInteger(row[ColumnOf(rows, AmountName)])
       /\ MatchesDate(row[ColumnOf(rows, DateName)], "-")

\* C15: for Format A the returned rows are, in input order, exactly the data
\* rows that have the three named columns non-empty, an integer amount field
\* and a YYYY-MM-DD date (the claim; the code also returns a row whose
\* amount field only begins with an integer).
C15_FormatARowsExact ==
    (Parsed /\ detectFormat(parseCsvRows(csvText)) = "A")
       => LET rows == parseCsvRows(csvText)
              kept == SelectSeq([i \in 1..(Len(rows) - 1) |-> i + 1],
                                LAMBDA i : WellFormedA(rows, i))
          IN /\ Len(csvResult.rows) = Len(kept)
             /\ \A k \in 1..Len(kept) :
                   /\ csvResult.rows[k].date = rows[kept[k]][ColumnOf(rows, DateName)]
                   /\ csvResult.rows[k].description =
                         rows[kept[k]][ColumnOf(rows, DescriptionName)]

\* The amount field of a Format B row: column 3, or column 6 exactly when
\* column 3 is blank (nothing when the row has no column 6 then).
AmountFieldB(row) ==
    IF row[3] # <<>> THEN row[3]
    ELSE IF Len(row) >= 6 THEN row[6] ELSE <<>>

\* The Format B row passes the date and the amount validation and names a
\* merchant.
WellFormedB(rows, i) ==
    LET row == rows[i]
    IN /\ Len(row) >= 3
       /\ MatchesDate(row[1], "/")
       /\ row[2] # <<>>
       /\ ~parseInt(AmountFieldB(row)).isNaN

\* C16: for Format B the returned rows are, in input order, the rows after
\* the first that pass the date and amount validation; each has the date of
\* column 1 with its two slashes turned into dashes, the description of
\* column 2, and as amount the absolute value of the integer parsed from
\* column 3, or from column 6 exactly when column 3 is blank.
C16_FormatBRows ==
    (Parsed /\ detectFormat(parseCsvRows(csvText)) = "B")
       => LET rows == parseCsvRows(csvText)
              kept == SelectSeq([i \in 1..(Len(rows) - 1) |-> i + 1],
                                LAMBDA i : WellFormedB(rows, i))
          IN /\ Len(csvResult.rows) = Len(kept)
             /\ \A k \in 1..Len(kept) :
                   LET row == rows[kept[k]]
                       parsed == parseInt(AmountFieldB(row)).value
                   IN /\ csvResult.rows[k].date = [row[1] EXCEPT ![5] = "-", ![8] = "-"]
                      /\ csvResult.rows[k].description = row[2]
                      /\ csvResult.rows[k].amount = IF parsed < 0 THEN -parsed ELSE parsed

C16_Witness ==
    /\ Parsed
    /\ csvResult.format = "B"
    /\ SplitLines(csvText) = <<MetaLine, RowBFallback, RowBWord>>
    /\ Len(csvResult.rows) = 1
    /\ csvResult.rows[1].amount = 100
    /\ csvResult.rows[1].description = <<"C", "a">>

----------------------------------------------------------------------------
(* Properties of the categorizer                                           *)

\* A learned mapping applies: the description has a key and the map holds it.
LearnedApplies(description, merchantMap) ==
    /\ deriveMerchantKey(description) # Null
    /\ deriveMerchantKey(description) \in DOMAIN merchantMap

\* The rules of the table that match the description.
MatchingRules(description) ==
    { i \in 1..Len(RULES) : RuleMatches(RULES[i], description) }

\* C17: when the key derived from the description is not null and is in
\* the learned map, categorizeWithLearning returns the mapped category with
\* source learned and confidence 1.0, whether or not a rule matches too, and
\* the call leaves the map as it was.
C17_LearnedWins ==
    [][catResult' # catResult
          => /\ learnedMap' = learnedMap
             /\ LearnedApplies(descr, learnedMap)
                   => /\ catResult'.category = learnedMap[deriveMerchantKey(descr)]
                      /\ catResult'.categorySource = "learned"
                      /\ catResult'.confidence = 10]_vars

C17_Witness ==
    /\ LearnedApplies(descr, learnedMap)
    /\ catResult.categorySource = "learned"
    /\ MatchingRules(descr) # {}
    /\ catResult.category # categorize(descr)

\* C18: when no learned mapping applies, the first rule in table order that
\* matches gives its category with source rule and confidence 0.8, and when
\* no rule matches the result is Uncategorized with source unknown and
\* confidence 0; every result has one of the three (source, confidence)
\* pairs learned/1.0, rule/0.8, unknown/0.
C18_RuleTableDecides ==
    catResult # NoCategorization
       => /\ <<catResult.categorySource, catResult.confidence>>
                \in { <<"learned", 10>>, <<"rule", 8>>, <<"unknown", 0>> }
          /\ ~LearnedApplies(descr, learnedMap)
                => IF MatchingRules(descr) # {}
                   THEN LET first == CHOOSE i \in MatchingRules(descr) :
                                        \A j \in MatchingRules(descr) : i <= j
                        IN /\ catResult.category = RULES[first].category
                           /\ catResult.categorySource = "rule"
                           /\ catResult.confidence = 8
                   ELSE /\ catResult.category = "Uncategorized"
                        /\ catResult.categorySource = "unknown"
                        /\ catResult.confidence = 0

C18_Witness ==
    /\ catResult # NoCategorization
    /\ ~LearnedApplies(descr, learnedMap)
    /\ Cardinality(MatchingRules(descr)) >= 2
    /\ catResult.category = "TRANSPORT"
    /\ catResult.categorySource = "rule"

\* C19: two descriptions with the same normalized form get the same
\* category from categorize (the claim; the patterns are tested on the
\* description as passed, so /aws/i misses the full-width spelling).
C19_SameNormalizedSameCategory ==
    ruleResult # "none"
       => \A other \in Descriptions :
             normalize(other) = normalize(descr) => categorize(other) = ruleResult

----------------------------------------------------------------------------
(* Properties of the import screen                                         *)

\* The call of handleFileChange in flight returns in this step.
FileHandled == reading = "read_file" /\ reading' = "idle"

\* C11: when parseCsvText reports an error for the chosen file, the step
\* that handles it shows the error, creates no preflight and leaves the
\* store and the insert call alone; without a preflight the import action
\* starts no insert; and whenever the store gains a record, the preflight
\* shown is that of a file parseCsvText accepted and the record is one of
\* its rows.
C11_RejectedFileWritesNothing ==
    [][ /\ FileHandled /\ parseCsvText(file).error # ""
           => /\ error' = parseCsvText(file).error
              /\ preflight' = NoPreflight
              /\ store' = store
              /\ tabs' = tabs
        /\ preflight = NoPreflight /\ pc[SeqTab] = "idle"
           => /\ pc'[SeqTab] = "idle"
              /\ HashesOf(store') = HashesOf(store)
        /\ HashesOf(store') # HashesOf(store)
           => /\ preflight # NoPreflight
              /\ parseCsvText(file).error = ""
              /\ \A r \in store' \ store :
                    \E i \in 1..Len(preflight.allRows) :
                       r = BulkTxn(CsvInput(preflight.allRows[i]))
      ]_vars

\* A file without a valid row was handled after an earlier import: its
\* error is shown, there is no preflight, the store holds what it held.
C11_Witness ==
    /\ reading = "idle"
    /\ file = FileNoValidRow
    /\ error = NoValidRows("A")
    /\ preflight = NoPreflight
    /\ pc[SeqTab] = "idle"
    /\ store # {}

\* The category the map loaded by handleFileChange holds for the merchant
\* of a row ("" when it holds none).
LearnedFor(row) ==
    LET k == deriveMerchantKey(row.description) IN
    IF k \in DOMAIN fileMerchantMap THEN fileMerchantMap[k] ELSE ""

\* The stored record of a row of the preflight is the learned one.
StoredAsLearned(records, row) ==
    \E r \in records :
       /\ r.hash = CsvInput(row).hash
       /\ r.category = LearnedFor(row)
       /\ r.category_source = "learned"
       /\ r.confidence = 10

\* The learning update writes the stored record's key, which is the key
\* derived from its description, with the category assigned.
LearningWritesDerivedKey ==
    merchant_map' # merchant_map
       => \E r \in store, c \in InboxCategories :
             /\ Truthy(r.merchant_key)
             /\ r.merchant_key = deriveMerchantKey(r.description)
             /\ store' = (store \ {r}) \cup
                            {[r EXCEPT !.category = c, !.category_source = "manual"]}
             /\ r.merchant_key \in DOMAIN buildMerchantMap(merchant_map')
             /\ buildMerchantMap(merchant_map')[r.merchant_key] = c

\* A file read later is categorized with every mapping learned so far.
LoadSeesLearned ==
    reading = "load_map" /\ reading' = "read_file"
       => \A m \in merchant_map :
             /\ m.merchant_key \in DOMAIN fileMerchantMap'
             /\ fileMerchantMap'[m.merchant_key] = m.category

\* Every row whose derived key is in the loaded map is previewed as learned.
PreflightShowsLearned ==
    FileHandled /\ preflight' # NoPreflight
       => \A i \in 1..Len(preflight'.allRows) :
             LET row == preflight'.allRows[i] IN
             LearnedFor(row) # ""
                => /\ row.predictedCategory = LearnedFor(row)
                   /\ row.categorySource = "learned"
                   /\ row.confidence = 10
                   /\ row.merchantKey = deriveMerchantKey(row.description)

\* The insert call of the import returns in this step.
ImportReturns ==
    /\ importing
    /\ pc[SeqTab] \in {"bulk_lookup", "bulk_write"}
    /\ pc'[SeqTab] = "returned"

----------------------------------------------------------------------------
(* Properties of the learning updates                                      *)

\* C21: after n completed learning updates for a merchant key its mapping
\* exists with hit count n (and there is no mapping before the first), in
\* any interleaving of the updates of the tabs; and no step removes a
\* mapping.
C21_HitsCountUpdates ==
    [][ /\ \A k \in LearnKeys : HitsOf(merchant_map', k) = CompletedFor(k)'
        /\ \A m \in merchant_map :
              \E n \in merchant_map' : n.merchant_key = m.merchant_key
      ]_vars

----------------------------------------------------------------------------
(* Properties of deriveMerchantKey                                         *)

\* The key of every description of the universe.
KeyOf == [d \in KeyDescriptions |-> deriveMerchantKey(d)]

\* The digits of a description as written, half or full width.
WrittenDigits == Digits \cup {"U+FF12"}

\* A description without its digits and the punctuation that is stripped.
Undecorated(description) == Remove(description, WrittenDigits \cup Punctuation)

UndecoratedOf == [d \in KeyDescriptions |-> Undecorated(d)]

\* C22: descriptions that differ only in digits and stripped punctuation
\* (they are equal once both are removed) derive the same merchant key.
C22_DigitsAndPunctuationIgnored ==
    derivedKey # NotDerived
       => \A other \in KeyDescriptions :
             UndecoratedOf[other] = UndecoratedOf[descr] => KeyOf[other] = derivedKey

\* 'a#1' got the key of 'a#2' (the two written full width) and of 'a'.
C22_Witness ==
    /\ descr = <<"a", "#", "1">>
    /\ derivedKey = <<"a">>
    /\ KeyOf[<<"a", "#", "U+FF12">>] = derivedKey
    /\ UndecoratedOf[<<"a", "#", "U+FF12">>] = UndecoratedOf[descr]

\* The letters and other word characters of a normalized description, in
\* their order.
WordCharacters(normalized) ==
    Remove(normalized, Digits \cup Punctuation \cup WhiteSpace)

WordCharactersOf == [d \in KeyDescriptions |-> WordCharacters(normalize(d))]

\* C23: two descriptions whose normalized forms differ in a letter or other
\* word character derive different keys (descriptions with the same key
\* have the same word characters).
C23_LettersKeepKeysApart ==
    derivedKey # NotDerived
       => \A other \in KeyDescriptions :
             KeyOf[other] = derivedKey
                => WordCharactersOf[other] = WordCharactersOf[descr]

\* 'a 1' and 'B 1' differ in their letter alone and got different keys.
C23_Witness ==
    /\ descr = <<"a", " ", "1">>
    /\ derivedKey = <<"a">>
    /\ KeyOf[<<"B", " ", "1">>] = <<"b">>

\* C24: deriveMerchantKey returns null exactly when nothing remains of the
\* normalized description once digits and punctuation are removed and the
\* rest is trimmed; otherwise it returns a text that is not empty.
C24_NullIffNothingRemains ==
    derivedKey # NotDerived
       => /\ derivedKey = Null
             <=> Trim(Remove(normalize(descr), Digits \cup Punctuation)) = <<>>
          /\ derivedKey # <<>>
          /\ derivedKey # Null
                => /\ Len(derivedKey) > 0
                   /\ \A i \in 1..Len(derivedKey) : derivedKey[i] \notin Digits

\* A description of digits alone got null.
C24_Witness ==
    /\ descr = <<"1", "U+FF12", "1">>
    /\ derivedKey = Null

----------------------------------------------------------------------------
(* Properties of decodeFileContent                                         *)

\* C25: decodeFileContent applied to the Shift_JIS bytes of a text returns
\* the text, also when the bytes are well-formed UTF-8.
C25_ShiftJisRoundTrip == decoded # NotDecoded => decoded = sjisText

----------------------------------------------------------------------------
(* Properties of the stored hash                                           *)

\* C26: every stored record's hash is the hash of its own date, absolute
\* amount and description, whichever producer stored it and after an edit.
C26_HashOfStoredFields ==
    \A r \in store : r.hash = generateHash(r.date, Abs(r.amount), r.description)

\* C27: the texts generateHash digests for two candidates are equal only if
\* the candidates agree on date, amount and description.
C27_HashTextTellsCandidatesApart ==
    hashTexts # NotHashed
       => (hashTexts[1] = hashTexts[2] => hashArgs[1] = hashArgs[2])

----------------------------------------------------------------------------
(* Properties of syncGmail                                                 *)

\* C28: when syncGmail returns, the new transactions, the duplicates skipped
\* and the errors add up to the number of messages listed for the run.
C28_EveryListedMessageCounted ==
    spc = "returned"
       => syncResult.newTransactions + syncResult.duplicatesSkipped
             + Len(syncResult.errors) = Len(listed)

\* A sync returned with a message inserted, a duplicate skipped and an error.
C28_Witness ==
    /\ spc = "returned"
    /\ syncResult.newTransactions > 0
    /\ syncResult.duplicatesSkipped > 0
    /\ Len(syncResult.errors) > 0

\* C29: a message whose fetch or parse failed in a sync that returned is
\* among the messages the next sync lists: the sync time stored is not
\* advanced past it.
C29_FailedMessageListedAgain ==
    spc = "returned"
       => \A m \in mailbox :
             m.id \in Range(syncResult.errors)
                => m \in Range(listVpassMessages(last_sync_at))

----------------------------------------------------------------------------
(* Properties of bulkApplyMerchantCategory                                 *)

\* The step is a call of bulkApplyMerchantCategory that returns.
BulkApplyReturns == applyResult = NoApply /\ applyResult' # NoApply

\* The records the call is to change: those of its merchant key whose
\* category is the sentinel.
ToChange == { t \in store : /\ t.merchant_key = applyResult'.merchantKey
                            /\ t.category = "Uncategorized" }

\* C30: bulkApplyMerchantCategory(k, c) replaces each record of merchant key
\* k and category 'Uncategorized' by the same record with category c and
\* category_source 'learned', leaves every other record as it is, and
\* returns the number of records it changed.
C30_BulkApplyChangesOnlyUncategorized ==
    [][BulkApplyReturns =>
          /\ store' = (store \ ToChange)
                \cup { [t EXCEPT !.category = applyResult'.category,
                                 !.category_source = "learned"] : t \in ToChange }
          /\ applyResult'.updated = Cardinality(store' \ store)
          /\ applyResult'.updated = Cardinality(ToChange)]_vars

\* A call changed a record and left alone a record of the same merchant key
\* that the user had categorized, a record of another merchant that a rule
\* had categorized, and an uncategorized record without merchant key.
C30_Witness ==
    /\ applyResult # NoApply
    /\ applyResult.updated > 0
    /\ \E t \in store : /\ t.merchant_key = applyResult.merchantKey
                        /\ t.category_source = "manual"
                        /\ t.category # applyResult.category
    /\ \E t \in store : /\ t.merchant_key \notin {applyResult.merchantKey, Null}
                        /\ t.category_source = "rule"
    /\ \E t \in store : t.merchant_key = Null /\ t.category = "Uncategorized"

====
